---- MODULE Spec2Model ----
(***************************************************************************)
(* A model of the kami HTTP router: the segment trie                       *)
(* (internal/radix/radix.go), the immutable builder handles                *)
(* (router/router.go: New, Use, Prefix, add, ServeHTTP, Run) and the       *)
(* router variant with global and route-specific middleware.               *)
(*                                                                         *)
(* Strings are sequences of one-character strings, so that trimming,       *)
(* splitting and prefix tests are computed as the code computes them.      *)
(***************************************************************************)
EXTENDS Integers, Sequences, FiniteSets, TLC

VARIABLES
    handles,   \* every *Router value created so far, in creation order
    tries,     \* heap of radix.Radix objects: reference -> root node
    flags,     \* heap of atomic.Bool objects: reference -> value
    served,    \* history: some ServeHTTP call has run
    reg,       \* the registration call in flight (interleaved specification)
    srv,       \* the ServeHTTP call in flight (interleaved specification)
    last,      \* observable outcome of the most recent call
    origin,    \* history: the call that created each handle
    registered, \* history: the registration calls that succeeded
    routes,    \* the route list handed to radix.New (list-built trie)
    ctx,       \* a request context: the parameter bindings made, oldest first
    walk       \* the Radix.Lookup calls in flight, one frame per caller

vars == <<handles, tries, flags, served, reg, srv, last, origin, registered,
          routes, ctx, walk>>

(***************************************************************************)
(* Bounds of the model.                                                    *)
(***************************************************************************)
MaxHandles == 3
MaxChain == 2
MaxPrefixLen == 4
MaxRoutes == 3
MaxBindings == 2

(***************************************************************************)
(* Inputs.                                                                 *)
(***************************************************************************)
Methods == {"GET", "POST"}
\* methods of the registration calls made (Router.GET)
RegMethods == {"GET"}
Middlewares == {"m1", "m2"}
RouteHandlers == {"h1"}
DefaultNotFoundHandler == [base |-> "notFound", chain |-> <<>>]
\* the default not-found handler and the one of TestWithNotFound
NotFoundHandlers == {"notFound", "testNotFound"}
NoHandler == [base |-> "nil", chain |-> <<>>]

\* arguments of Use
UseArgs == {<<"m1">>, <<"m2">>, <<"m1", "m2">>}

\* arguments of Prefix
PrefixArgs == {<<>>, <<"/", "a">>, <<"/">>}

\* arguments of the chained call h.Prefix(segment).Use(mws...)
ChainArgs == {<<"/", "a">>} \X {<<"m1">>}

\* the places where the code that runs for a request can panic: nowhere, in
\* the route's handler, in a middleware after the next handler returned, in
\* the responder before it writes the status, in the responder after it
\* wrote the status
FaultPoints == {"none", "handler", "middleware", "responder", "written"}

\* requests: <<method, path, fault>>, fault is the place where the code that
\* runs for this request panics
Requests ==
    {<<"GET", <<"/">>, "none">>, <<"GET", <<"/", "a">>, "none">>,
     <<"GET", <<"/", "a">>, "handler">>,
     <<"GET", <<"/", "a", "/", "a">>, "none">>,
     <<"POST", <<"/", "a">>, "none">>}

(***************************************************************************)
(* strings.TrimRight, strings.TrimLeft, strings.HasPrefix, strings.Split   *)
(***************************************************************************)
RECURSIVE TrimRight(_, _)
TrimRight(s, c) ==
    IF Len(s) > 0 /\ s[Len(s)] = c
    THEN TrimRight(SubSeq(s, 1, Len(s) - 1), c)
    ELSE s

RECURSIVE TrimLeft(_, _)
TrimLeft(s, c) ==
    IF Len(s) > 0 /\ s[1] = c
    THEN TrimLeft(Tail(s), c)
    ELSE s

HasPrefix(s, p) ==
    /\ Len(p) <= Len(s)
    /\ SubSeq(s, 1, Len(p)) = p

\* strings.Split(s, sep) for a one-character sep: always at least one piece
RECURSIVE SplitFrom(_, _, _)
SplitFrom(s, sep, cur) ==
    IF Len(s) = 0 THEN <<cur>>
    ELSE IF s[1] = sep THEN <<cur>> \o SplitFrom(Tail(s), sep, <<>>)
    ELSE SplitFrom(Tail(s), sep, Append(cur, s[1]))

Split(s, sep) == SplitFrom(s, sep, <<>>)

(***************************************************************************)
(* The trie: internal/radix/radix.go                                       *)
(***************************************************************************)
\* a nil map[string]Handler
NilTerminal == [m \in {} |-> NoHandler]

\* &Node{prefix: p}
Node(p) == [prefix |-> p, children |-> <<>>, terminal |-> NilTerminal]

\* radix.New: Radix{root: &Node{}}
NewRadix == Node(<<>>)

\* addRoute that stores the handler under every method
SetTerminal_allMethods(t, method, handler) == [m \in Methods |-> handler]

\* node.terminal[method] = handler (the map is made on first use)
SetTerminal(t, method, handler) ==
    [m \in (DOMAIN t) \cup {method} |-> IF m = method THEN handler ELSE t[m]]

\* a search that finds no child, so that every route gets nodes of its own
FirstChild_none(children, seg) == 0

\* index of the first child whose prefix equals seg, 0 when there is none
FirstChild(children, seg) ==
    LET hits == {i \in DOMAIN children : children[i].prefix = seg}
    IN IF hits = {} THEN 0
       ELSE CHOOSE i \in hits : \A j \in hits : i <= j

RECURSIVE addRoute(_, _, _, _)
addRoute(route, node, segments, pos) ==
    IF pos > Len(segments)
    THEN [node EXCEPT !.terminal = SetTerminal(@, route.Method, route.Handler)]
    ELSE LET seg == segments[pos]
             i == FirstChild(node.children, seg)
         IN IF i # 0
            THEN [node EXCEPT !.children[i] =
                     addRoute(route, node.children[i], segments, pos + 1)]
            ELSE [node EXCEPT !.children =
                     Append(@, addRoute(route, Node(seg), segments, pos + 1))]

\* radix.New: the path check and the insertion of one route of the list
NewRoute(root, route) ==
    IF Len(route.Path) = 0 \/ route.Path[1] # "/"
    THEN [err |-> TRUE, root |-> root]
    ELSE [err |-> FALSE,
          root |-> addRoute(route, root, Tail(Split(route.Path, "/")), 1)]

\* lookup that strips every leading '/' of the path
RECURSIVE lookup_stripAll(_, _, _)
lookup_stripAll(node, method, path0) ==
    LET path == TrimLeft(path0, "/")
        fits(c) == /\ HasPrefix(path, c.prefix)
                   /\ (Len(path) = Len(c.prefix) \/ path[Len(c.prefix) + 1] = "/")
        hits == {i \in DOMAIN node.children : fits(node.children[i])}
    IN IF path = <<>>
       THEN IF method \in DOMAIN node.terminal
            THEN [handler |-> node.terminal[method], ok |-> TRUE]
            ELSE [handler |-> NoHandler, ok |-> FALSE]
       ELSE IF hits = {}
            THEN [handler |-> NoHandler, ok |-> FALSE]
            ELSE LET i == CHOOSE k \in hits : \A j \in hits : k <= j
                     c == node.children[i]
                 IN lookup_stripAll(c, method,
                                    SubSeq(path, Len(c.prefix) + 1, Len(path)))

\* lookup without the test of the segment boundary
RECURSIVE lookup_noBoundary(_, _, _)
lookup_noBoundary(node, method, path0) ==
    LET path == IF Len(path0) > 0 /\ path0[1] = "/" THEN Tail(path0) ELSE path0
        fits(c) == HasPrefix(path, c.prefix)
        hits == {i \in DOMAIN node.children : fits(node.children[i])}
    IN IF path = <<>>
       THEN IF method \in DOMAIN node.terminal
            THEN [handler |-> node.terminal[method], ok |-> TRUE]
            ELSE [handler |-> NoHandler, ok |-> FALSE]
       ELSE IF hits = {}
            THEN [handler |-> NoHandler, ok |-> FALSE]
            ELSE LET i == CHOOSE k \in hits : \A j \in hits : k <= j
                     c == node.children[i]
                 IN lookup_noBoundary(c, method,
                                      SubSeq(path, Len(c.prefix) + 1, Len(path)))

RECURSIVE lookup(_, _, _)
lookup(node, method, path0) ==
    LET path == IF Len(path0) > 0 /\ path0[1] = "/" THEN Tail(path0) ELSE path0
        fits(c) == /\ HasPrefix(path, c.prefix)
                   /\ (Len(path) = Len(c.prefix) \/ path[Len(c.prefix) + 1] = "/")
        hits == {i \in DOMAIN node.children : fits(node.children[i])}
    IN IF path = <<>>
       THEN IF method \in DOMAIN node.terminal
            THEN [handler |-> node.terminal[method], ok |-> TRUE]
            ELSE [handler |-> NoHandler, ok |-> FALSE]
       ELSE IF hits = {}
            THEN [handler |-> NoHandler, ok |-> FALSE]
            ELSE LET i == CHOOSE k \in hits : \A j \in hits : k <= j
                     c == node.children[i]
                 IN lookup(c, method, SubSeq(path, Len(c.prefix) + 1, Len(path)))

\* compress that keeps the terminal map of the parent when it merges
RECURSIVE compress_keepTerminal(_)
compress_keepTerminal(node) ==
    LET kids == [i \in DOMAIN node.children |->
                    compress_keepTerminal(node.children[i])]
    IN IF node.prefix = <<>>
       THEN [node EXCEPT !.children = kids]
       ELSE IF Len(kids) = 1 /\ node.terminal = NilTerminal
       THEN [prefix |-> node.prefix \o <<"/">> \o kids[1].prefix,
             children |-> kids[1].children,
             terminal |-> node.terminal]
       ELSE [node EXCEPT !.children = kids]

\* compress: children first, then a node with a non-empty prefix, one child
\* and a nil terminal map takes over the child
RECURSIVE compress(_)
compress(node) ==
    LET kids == [i \in DOMAIN node.children |-> compress(node.children[i])]
    IN IF node.prefix = <<>>
       THEN [node EXCEPT !.children = kids]
       ELSE IF Len(kids) = 1 /\ node.terminal = NilTerminal
       THEN [prefix |-> node.prefix \o <<"/">> \o kids[1].prefix,
             children |-> kids[1].children,
             terminal |-> kids[1].terminal]
       ELSE [node EXCEPT !.children = kids]

\* the loop of radix.New from route k on: the first bad path ends it
RECURSIVE NewLoop(_, _, _)
NewLoop(root, rs, k) ==
    IF k > Len(rs) THEN [err |-> FALSE, root |-> root]
    ELSE LET r == NewRoute(root, rs[k])
         IN IF r.err THEN [err |-> TRUE, root |-> NewRadix]
            ELSE NewLoop(r.root, rs, k + 1)

\* radix.New without its compression pass
radixNew_uncompressed(rs) == NewLoop(NewRadix, rs, 1)

\* radix.New(routes)
radixNew(rs) ==
    LET built == NewLoop(NewRadix, rs, 1)
    IN IF built.err THEN built
       ELSE [err |-> FALSE, root |-> compress(built.root)]

(***************************************************************************)
(* The matcher interface the builder calls: Radix.AddRoute(method, path,   *)
(* handler) -> error and Radix.Lookup(method, path) -> (handler, params,   *)
(* found).  A path is a sequence of non-empty segments separated by "/";   *)
(* a segment that starts with ":" is a parameter, one that starts with "*" *)
(* a wildcard, every other one a literal.                                  *)
(* The sources hold the callers of this interface only; the definitions    *)
(* follow the specification of the matcher and reuse addRoute.             *)
(***************************************************************************)
\* the segments of a path
RECURSIVE NonEmpty(_)
NonEmpty(ss) ==
    IF ss = <<>> THEN <<>>
    ELSE IF Head(ss) = <<>> THEN NonEmpty(Tail(ss))
    ELSE <<Head(ss)>> \o NonEmpty(Tail(ss))

Segments(path) == NonEmpty(Split(path, "/"))

AddRoute(root, method, path, handler) ==
    IF Len(path) = 0 \/ path[1] # "/"
    THEN [err |-> TRUE, root |-> root]
    ELSE [err |-> FALSE,
          root |-> addRoute([Method |-> method, Path |-> path, Handler |-> handler],
                            root, Segments(path), 1)]

NoParams == [k \in {} |-> <<>>]

\* a matcher without parameter segments
IsParam_never(c) == FALSE

IsParam(c) == Len(c.prefix) > 0 /\ c.prefix[1] = ":"
\* a matcher without wildcard segments
IsWildcard_never(c) == FALSE

IsWildcard(c) == Len(c.prefix) > 0 /\ c.prefix[1] = "*"
IsLiteral(c) == ~IsParam(c) /\ ~IsWildcard(c)

\* the first segment of a path without its leading "/"
RECURSIVE FirstSegment(_)
FirstSegment(path) ==
    IF path = <<>> \/ Head(path) = "/" THEN <<>>
    ELSE <<Head(path)>> \o FirstSegment(Tail(path))

Least(S) == CHOOSE i \in S : \A j \in S : i <= j

\* a lookup that returns the newest binding only
Bind_newestOnly(params, name, value) == [k \in {name} |-> value]

Bind(params, name, value) ==
    [k \in (DOMAIN params) \cup {name} |-> IF k = name THEN value ELSE params[k]]

\* a literal child fits when its prefix is a leading run of path that ends at
\* the end of path or in front of a "/"
Fits(c, path) ==
    /\ HasPrefix(path, c.prefix)
    /\ (Len(path) = Len(c.prefix) \/ path[Len(c.prefix) + 1] = "/")

\* the first child in insertion order that can take the path, whatever its
\* kind
Select_insertionOrder(kids, path) ==
    LET hits == {i \in DOMAIN kids : IsLiteral(kids[i]) => Fits(kids[i], path)}
    IN IF hits = {} THEN 0 ELSE Least(hits)

\* index of the child that takes the path, 0 when there is none: the first
\* literal child that fits, else the first parameter child, else the first
\* wildcard child
Select(kids, path) ==
    LET lits == {i \in DOMAIN kids : IsLiteral(kids[i]) /\ Fits(kids[i], path)}
        pars == {i \in DOMAIN kids : IsParam(kids[i])}
        wilds == {i \in DOMAIN kids : IsWildcard(kids[i])}
    IN IF lits # {} THEN Least(lits)
       ELSE IF pars # {} THEN Least(pars)
       ELSE IF wilds # {} THEN Least(wilds)
       ELSE 0

RECURSIVE LookupFrom(_, _, _, _)
LookupFrom(node, method, path0, params) ==
    LET path == IF Len(path0) > 0 /\ path0[1] = "/" THEN Tail(path0) ELSE path0
        i == Select(node.children, path)
        c == node.children[i]
        miss == [handler |-> NoHandler, params |-> NoParams, ok |-> FALSE]
    IN IF path = <<>>
       THEN IF method \in DOMAIN node.terminal
            THEN [handler |-> node.terminal[method], params |-> params,
                  ok |-> TRUE]
            ELSE miss
       ELSE IF i = 0 THEN miss
       ELSE IF IsLiteral(c)
       THEN LookupFrom(c, method, SubSeq(path, Len(c.prefix) + 1, Len(path)),
                       params)
       ELSE IF IsParam(c)
       THEN LET v == FirstSegment(path)
            IN LookupFrom(c, method, SubSeq(path, Len(v) + 1, Len(path)),
                          Bind(params, Tail(c.prefix), v))
       ELSE LookupFrom(c, method, <<>>, Bind(params, Tail(c.prefix), path))

Lookup(root, method, path) == LookupFrom(root, method, path, NoParams)

(***************************************************************************)
(* The parameter context: WithParams and GetParams of package router,      *)
(* called by ServeHTTP and by the handlers                                 *)
(*                                                                         *)
(* A map value is nil or allocated; kv holds its entries.  A context is    *)
(* the list of the bindings made on the way to it, oldest first.           *)
(***************************************************************************)
NilMap == [nil |-> TRUE, kv |-> NoParams]

\* map[string]string{...}
MakeMap(kv) == [nil |-> FALSE, kv |-> kv]

\* maps.Equal: the same entries; a nil map has none
MapsEqual(a, b) == a.kv = b.kv

\* context.Background()
Background == <<>>

\* WithParams(ctx, params): the context derived from ctx in which params is
\* bound; ctx itself is not changed
WithParams(c, params) == Append(c, params)

\* an accessor that reads the oldest binding
GetParams_oldest(c) == IF c = <<>> THEN MakeMap(NoParams) ELSE c[1]

\* GetParams(ctx): the mapping bound nearest to ctx, an empty mapping when
\* none was bound
GetParams(c) == IF c = <<>> THEN MakeMap(NoParams) ELSE c[Len(c)]

(***************************************************************************)
(* Handlers and middleware: types/types.go                                 *)
(*                                                                         *)
(* A handler value is a base handler under a stack of middleware layers,   *)
(* outermost first.  A middleware applied to a handler puts one layer      *)
(* around it.                                                              *)
(***************************************************************************)
Handler(id) == [base |-> id, chain |-> <<>>]

\* mw(h): the handler that runs mw around h
Apply(mw, h) == [h EXCEPT !.chain = <<mw>> \o @]

\* h := handler; for i := len(middleware)-1; i >= 0; i-- { h = middleware[i](h) }
RECURSIVE WrapFrom(_, _, _)
WrapFrom(h, middleware, i) ==
    IF i < 1 THEN h
    ELSE WrapFrom(Apply(middleware[i], h), middleware, i - 1)

\* the loop run from the first middleware to the last
Wrap_forward(handler, middleware) ==
    [handler EXCEPT !.chain = [k \in 1..Len(middleware) |->
                                  middleware[Len(middleware) + 1 - k]] \o @]

Wrap(handler, middleware) == WrapFrom(handler, middleware, Len(middleware))

\* status written by the responder of a base handler
BaseStatus(id) == IF id \in NotFoundHandlers THEN 404 ELSE 200

\* http.ResponseWriter.WriteHeader: w is the status written so far, 0 when
\* none was written; the first call fixes the status of the response and
\* net/http ignores every later call
WriteHeader(w, code) == IF w = 0 THEN code ELSE w

\* responder.Respond(w, req) of the responder that the base handler returned:
\* it writes its status, and it may panic before or after that
Respond(w, base, fault) ==
    IF fault = "responder" /\ base \in RouteHandlers
    THEN [trace |-> << <<"panic", "responder">> >>, status |-> w,
          panicked |-> TRUE]
    ELSE IF fault = "written" /\ base \in RouteHandlers
    THEN [trace |-> << <<"write", base>>, <<"panic", "responder">> >>,
          status |-> WriteHeader(w, BaseStatus(base)), panicked |-> TRUE]
    ELSE [trace |-> <<>>, status |-> WriteHeader(w, BaseStatus(base)),
          panicked |-> FALSE]

\* h(req) followed by responder.Respond: every layer runs its code, calls the
\* next layer and continues after it returns; a panic in the base handler
\* unwinds through all the layers, a panic in the outermost middleware after
\* its next handler returned leaves the responder unused; status is the
\* status written when the code returned or panicked
Exec(h, fault) ==
    LET n == Len(h.chain)
        enters == [k \in 1..n |-> <<"enter", h.chain[k]>>]
        exits == [k \in 1..n |-> <<"exit", h.chain[n + 1 - k]>>]
        out == Respond(0, h.base, fault)
    IN IF fault = "handler" /\ h.base \in RouteHandlers
       THEN [trace |-> enters \o << <<"panic", h.base>> >>, status |-> 0,
             panicked |-> TRUE]
       ELSE IF fault = "middleware" /\ n > 0
       THEN [trace |-> enters \o << <<"call", h.base>> >>
                           \o SubSeq(exits, 1, n - 1)
                           \o << <<"panic", h.chain[1]>> >>,
             status |-> 0, panicked |-> TRUE]
       ELSE [trace |-> enters \o << <<"call", h.base>> >> \o exits \o out.trace,
             status |-> out.status, panicked |-> out.panicked]

\* ServeHTTP without the deferred recover: the panic leaves ServeHTTP
recover_absent(run) ==
    [status |-> run.status,
     panic |-> IF run.panicked THEN <<"panic">> ELSE <<>>]

\* the deferred function of ServeHTTP: a panic is recovered and http.Error
\* writes the status 500
recover(run) ==
    [status |-> IF run.panicked THEN WriteHeader(run.status, 500)
                ELSE run.status,
     panic |-> <<>>]

(***************************************************************************)
(* The heaps of shared objects                                             *)
(***************************************************************************)
FlagAt(fl, ref) == IF ref \in DOMAIN fl THEN fl[ref] ELSE FALSE
TrieAt(tr, ref) == IF ref \in DOMAIN tr THEN tr[ref] ELSE NewRadix
Put(heap, ref, v) ==
    [k \in (DOMAIN heap) \cup {ref} |-> IF k = ref THEN v ELSE heap[k]]

(***************************************************************************)
(* The builder: router/router.go                                           *)
(***************************************************************************)
\* router.New without options
New ==
    [radix |-> 1, notFound |-> DefaultNotFoundHandler, middleware |-> <<>>,
     started |-> 1, prefix |-> <<>>]

\* WithNotFound that leaves the default handler in place
WithNotFound_ignored(r, h) == r

\* the option WithNotFound(h) applied to the router under construction
WithNotFound(r, h) == [r EXCEPT !.notFound = h]

\* router.New(opts...): opts is the list of the handlers given through
\* WithNotFound, applied in order
RECURSIVE ApplyOptions(_, _, _)
ApplyOptions(r, opts, k) ==
    IF k > Len(opts) THEN r
    ELSE ApplyOptions(WithNotFound(r, opts[k]), opts, k + 1)

NewWith(opts) == ApplyOptions(New, opts, 1)

\* a copy that takes a trie and a flag of its own
shallowCopy_ownState(r) ==
    [radix |-> r.radix + 1, notFound |-> r.notFound, prefix |-> r.prefix,
     started |-> r.started + 1, middleware |-> <<>> \o r.middleware]

\* Router.shallowCopy: the pointers to the trie and to the flag are copied, the
\* middleware slice is copied element by element
shallowCopy(r) ==
    [radix |-> r.radix, notFound |-> r.notFound, prefix |-> r.prefix,
     started |-> r.started, middleware |-> <<>> \o r.middleware]

\* Use that puts the new middleware in front of the inherited chain
Use_prepend(hs, i, mws) ==
    LET nr == shallowCopy(hs[i])
    IN Append(hs, [nr EXCEPT !.middleware = mws \o @])

\* Use that appends to the receiver's own chain and then copies it
Use_inPlace(hs, i, mws) ==
    LET changed == [hs EXCEPT ![i].middleware = @ \o mws]
    IN Append(changed, shallowCopy(changed[i]))

\* the handles after hs[i].Use(mws...): the new handle is the last one
Use(hs, i, mws) ==
    LET nr == shallowCopy(hs[i])
    IN Append(hs, [nr EXCEPT !.middleware = @ \o mws])

\* Prefix that joins the two strings as they are
Prefix_noTrim(hs, i, segment) ==
    IF segment = <<>> THEN Append(hs, shallowCopy(hs[i]))
    ELSE LET nr == shallowCopy(hs[i])
         IN Append(hs, [nr EXCEPT !.prefix = hs[i].prefix \o <<"/">> \o segment])

\* Prefix that assigns the joined prefix to the receiver and then copies it
Prefix_inPlace(hs, i, segment) ==
    IF segment = <<>> THEN Append(hs, shallowCopy(hs[i]))
    ELSE LET base == TrimRight(hs[i].prefix, "/")
             seg == TrimLeft(segment, "/")
             changed == [hs EXCEPT ![i].prefix = base \o <<"/">> \o seg]
         IN Append(changed, shallowCopy(changed[i]))

\* the handles after hs[i].Prefix(segment): the new handle is the last one
Prefix(hs, i, segment) ==
    IF segment = <<>> THEN Append(hs, shallowCopy(hs[i]))
    ELSE LET base == TrimRight(hs[i].prefix, "/")
             seg == TrimLeft(segment, "/")
             nr == shallowCopy(hs[i])
         IN Append(hs, [nr EXCEPT !.prefix = base \o <<"/">> \o seg])

\* a store of the negation of the current value
StoreStarted_toggle(fl, ref) == Put(fl, ref, ~FlagAt(fl, ref))

\* r.started.Store(true)
StoreStarted(fl, ref) == Put(fl, ref, TRUE)

\* add without its check of the flag
LoadStarted_skipped(fl, r) == FALSE

\* r.started.Load() at the head of add
LoadStarted(fl, r) == FlagAt(fl, r.started)

\* the part of add after the check: wrap the handler, insert it
addInsert(r, tr, method, handler) ==
    LET h == Wrap(Handler(handler), r.middleware)
        res == AddRoute(TrieAt(tr, r.radix), method, r.prefix, h)
    IN IF res.err
       THEN [panic |-> <<method, r.prefix, "path must start with '/'">>,
             tries |-> tr]
       ELSE [panic |-> <<>>, tries |-> Put(tr, r.radix, res.root)]

\* Router.add: the outcome of one registration call
add(r, fl, tr, method, handler) ==
    IF LoadStarted(fl, r)
    THEN [panic |-> <<"cannot register path: ", r.prefix,
                      " since the router is running">>,
          tries |-> tr]
    ELSE addInsert(r, tr, method, handler)

\* the mapping that Lookup returns with a match: allocated before the walk,
\* so empty and not nil when the route binds nothing
ParamsOf(res) == MakeMap(res.params)

\* ServeHTTP that leaves the mapping nil when Lookup reports no match
BindParams_nilOnMiss(res) ==
    GetParams(WithParams(Background, IF res.ok THEN ParamsOf(res) ELSE NilMap))

\* ServeHTTP, lines 80-87: the mapping of the match, or a new empty mapping
\* when Lookup reports no match, is bound in the context of the request; the
\* result is the mapping that the handler reads with GetParams
BindParams(res) ==
    GetParams(WithParams(Background,
                         IF res.ok THEN ParamsOf(res) ELSE MakeMap(NoParams)))

\* ServeHTTP that wraps the resolved handler with the middleware of the
\* handle that serves
Dispatch_ownChain(r, tr, method, path, fault) ==
    LET res == Lookup(TrieAt(tr, r.radix), method, path)
        h == IF res.ok THEN Wrap(res.handler, r.middleware) ELSE r.notFound
        run == Exec(h, fault)
        out == recover(run)
    IN [found |-> res.ok, handler |-> h,
        params |-> BindParams(res).kv, absent |-> BindParams(res).nil,
        trace |-> run.trace, status |-> out.status, panic |-> out.panic]

\* Router.ServeHTTP after the store of the flag: lookup, fallback to the
\* not-found handler, execution under recover
Dispatch(r, tr, method, path, fault) ==
    LET res == Lookup(TrieAt(tr, r.radix), method, path)
        h == IF res.ok THEN res.handler ELSE r.notFound
        run == Exec(h, fault)
        out == recover(run)
    IN [found |-> res.ok, handler |-> h,
        params |-> BindParams(res).kv, absent |-> BindParams(res).nil,
        trace |-> run.trace, status |-> out.status, panic |-> out.panic]

(***************************************************************************)
(* Observations and history                                                *)
(***************************************************************************)
NoObs ==
    [op |-> "none", h |-> 0, method |-> "", path |-> <<>>, handler |-> NoHandler,
     found |-> FALSE, params |-> NoParams, absent |-> FALSE, trace |-> <<>>,
     status |-> 0, panic |-> <<>>]

IdleReg == [pc |-> "idle", h |-> 0, method |-> "", handler |-> ""]
IdleSrv == [pc |-> "idle", h |-> 0, method |-> "", path |-> <<>>, fault |-> "none"]

ServeObs(method, path, d) ==
    [NoObs EXCEPT !.op = "serve", !.method = method, !.path = path,
                  !.handler = d.handler, !.found = d.found,
                  !.params = d.params, !.absent = d.absent, !.trace = d.trace,
                  !.status = d.status,
                  !.panic = d.panic]

AddObs(i, method, path, handler, a) ==
    [NoObs EXCEPT !.op = "add", !.h = i, !.method = method, !.path = path,
                  !.handler = Handler(handler), !.panic = a.panic]

\* the registrations that succeeded, the latest for each (method, path), each
\* with the handle it was made through and the middleware it was given
Registered(rs, a, i, method, path, handler, chain) ==
    IF a.panic # <<>> THEN rs
    ELSE {x \in rs : ~(x.method = method /\ Segments(x.path) = Segments(path))}
         \cup {[method |-> method, path |-> path, base |-> handler,
                chain |-> chain, h |-> i]}

RootOrigin == [parent |-> 0, op |-> "new", arg |-> <<>>]

(***************************************************************************)
(* The sequential specification: every call runs to completion             *)
(***************************************************************************)
Init ==
    /\ handles = <<New>>
    /\ tries = <<NewRadix>>
    /\ flags = <<FALSE>>
    /\ served = FALSE
    /\ reg = IdleReg
    /\ srv = IdleSrv
    /\ last = NoObs
    /\ origin = <<RootOrigin>>
    /\ registered = {}
    /\ routes = <<>>
    /\ ctx = <<>>
    /\ walk = <<>>

UseCall ==
    \E i \in DOMAIN handles, mws \in UseArgs :
        /\ Len(handles) < MaxHandles
        /\ Len(handles[i].middleware) + Len(mws) <= MaxChain
        /\ handles' = Use(handles, i, mws)
        /\ origin' = Append(origin, [parent |-> i, op |-> "use", arg |-> mws])
        /\ UNCHANGED <<tries, flags, served, reg, srv, last, registered, routes, ctx, walk>>

PrefixCall ==
    \E i \in DOMAIN handles, segment \in PrefixArgs :
        /\ Len(handles) < MaxHandles
        /\ Len(Prefix(handles, i, segment)[Len(handles) + 1].prefix) <= MaxPrefixLen
        /\ handles' = Prefix(handles, i, segment)
        /\ origin' = Append(origin, [parent |-> i, op |-> "prefix", arg |-> segment])
        /\ UNCHANGED <<tries, flags, served, reg, srv, last, registered, routes, ctx, walk>>

\* h.Prefix(segment).Use(mws...): the intermediate handle is not retained
PrefixUseCall ==
    \E i \in DOMAIN handles, c \in ChainArgs :
        LET hs == Use(Prefix(handles, i, c[1]), Len(handles) + 1, c[2])
        IN /\ Len(handles) < MaxHandles
           /\ Len(handles[i].middleware) + Len(c[2]) <= MaxChain
           /\ Len(hs[Len(hs)].prefix) <= MaxPrefixLen
           /\ handles' = [k \in 1..(Len(handles) + 1) |->
                             IF k <= Len(handles) THEN hs[k] ELSE hs[Len(hs)]]
           /\ origin' = Append(origin, [parent |-> i, op |-> "use", arg |-> c[2]])
           /\ UNCHANGED <<tries, flags, served, reg, srv, last, registered, routes, ctx, walk>>

AddCall ==
    \E i \in DOMAIN handles, method \in RegMethods, handler \in RouteHandlers :
        LET a == add(handles[i], flags, tries, method, handler)
        IN /\ tries' = a.tries
           /\ last' = AddObs(i, method, handles[i].prefix, handler, a)
           /\ registered' = Registered(registered, a, i, method, handles[i].prefix,
                                       handler, handles[i].middleware)
           /\ UNCHANGED <<handles, flags, served, reg, srv, origin, routes, ctx, walk>>

ServeCall ==
    \E i \in DOMAIN handles, q \in Requests :
        /\ flags' = StoreStarted(flags, handles[i].started)
        /\ served' = TRUE
        /\ last' = ServeObs(q[1], q[2],
                            Dispatch(handles[i], tries, q[1], q[2], q[3]))
        /\ UNCHANGED <<handles, tries, reg, srv, origin, registered, routes, ctx, walk>>

\* Router.Run: the flag is stored, then the listener serves through ServeHTTP
RunCall ==
    \E i \in DOMAIN handles :
        /\ flags' = StoreStarted(flags, handles[i].started)
        /\ UNCHANGED <<handles, tries, served, reg, srv, last, origin, registered, routes, ctx, walk>>

Next ==
    UseCall \/ PrefixCall \/ PrefixUseCall \/ AddCall \/ ServeCall \/ RunCall

Spec == Init /\ [][Next]_vars

(***************************************************************************)
(* The interleaved specification: a registration call and a ServeHTTP call *)
(* run on different threads; each access to the flag or to the trie is one *)
(* step (router/router.go, add and ServeHTTP take no lock)                 *)
(***************************************************************************)
\* add, line 94: the load of the flag and the panic when it is set
AddCheck ==
    \E i \in DOMAIN handles, method \in RegMethods, handler \in RouteHandlers :
        /\ reg.pc = "idle"
        /\ IF LoadStarted(flags, handles[i])
           THEN /\ last' = AddObs(i, method, handles[i].prefix, handler,
                                  add(handles[i], flags, tries, method, handler))
                /\ reg' = reg
           ELSE /\ reg' = [pc |-> "checked", h |-> i, method |-> method,
                           handler |-> handler]
                /\ last' = last
        /\ UNCHANGED <<handles, tries, flags, served, srv, origin, registered, routes, ctx, walk>>

\* add, lines 99-106: the wrapping and the insertion
AddInsert ==
    /\ reg.pc = "checked"
    /\ LET r == handles[reg.h]
           a == addInsert(r, tries, reg.method, reg.handler)
       IN /\ tries' = a.tries
          /\ last' = AddObs(reg.h, reg.method, r.prefix, reg.handler, a)
          /\ registered' = Registered(registered, a, reg.h, reg.method, r.prefix,
                                      reg.handler, r.middleware)
    /\ reg' = IdleReg
    /\ UNCHANGED <<handles, flags, served, srv, origin, routes, ctx, walk>>

\* ServeHTTP, line 67: the store of the flag
ServeStore ==
    \E i \in DOMAIN handles, q \in Requests :
        /\ srv.pc = "idle"
        /\ flags' = StoreStarted(flags, handles[i].started)
        /\ served' = TRUE
        /\ srv' = [pc |-> "stored", h |-> i, method |-> q[1], path |-> q[2],
                   fault |-> q[3]]
        /\ UNCHANGED <<handles, tries, reg, last, origin, registered, routes, ctx, walk>>

\* ServeHTTP, lines 80-90: the lookup and the execution of the handler
ServeLookup ==
    /\ srv.pc = "stored"
    /\ last' = ServeObs(srv.method, srv.path,
                        Dispatch(handles[srv.h], tries, srv.method, srv.path,
                                 srv.fault))
    /\ srv' = IdleSrv
    /\ UNCHANGED <<handles, tries, flags, served, reg, origin, registered, routes, ctx, walk>>

\* the handles built before the threads start: a root, a prefixed handle and
\* a handle with middleware derived from it
ConcInit ==
    /\ \E segment \in PrefixArgs, mws \in UseArgs :
          /\ handles = Use(Prefix(<<New>>, 1, segment), 2, mws)
          /\ origin = <<RootOrigin,
                        [parent |-> 1, op |-> "prefix", arg |-> segment],
                        [parent |-> 2, op |-> "use", arg |-> mws]>>
    /\ tries = <<NewRadix>>
    /\ flags = <<FALSE>>
    /\ served = FALSE
    /\ reg = IdleReg
    /\ srv = IdleSrv
    /\ last = NoObs
    /\ registered = {}
    /\ routes = <<>>
    /\ ctx = <<>>
    /\ walk = <<>>

ConcNext == AddCheck \/ AddInsert \/ ServeStore \/ ServeLookup

ConcSpec == ConcInit /\ [][ConcNext]_vars

(***************************************************************************)
(* The router with global and route-specific middleware: one Router value, *)
(* Use appends to its global chain in place, add takes the path and the    *)
(* middleware of the route, ServeHTTP wraps the resolved handler with the  *)
(* global chain at request time.  handles[1].middleware is r.global and    *)
(* origin[1].arg collects the arguments of the Use calls in call order.    *)
(***************************************************************************)
\* paths of the registration calls
RoutePaths == {<<"/", "a">>, <<"/", "a", "/", "a">>, <<"a">>}

\* route-specific middleware of the registration calls
RouteArgs == {<<>>, <<"m1">>, <<"m2">>, <<"m2", "m1">>}

\* r.global = append(r.global, mw...)
UseG(r, mw) == [r EXCEPT !.middleware = @ \o mw]

\* Router.add(method, path, handler, middleware...)
addG(r, fl, tr, method, path, handler, middleware) ==
    IF LoadStarted(fl, r)
    THEN [panic |-> <<"cannot register path: ", path,
                      " since the router is running">>,
          tries |-> tr]
    ELSE LET h == Wrap(Handler(handler), middleware)
             res == AddRoute(TrieAt(tr, r.radix), method, path, h)
         IN IF res.err
            THEN [panic |-> <<method, path, "path must start with '/'">>,
                  tries |-> tr]
            ELSE [panic |-> <<>>, tries |-> Put(tr, r.radix, res.root)]

\* ServeHTTP that puts the global chain inside the chain of the route
DispatchG_globalInside(r, tr, method, path, fault) ==
    LET res == Lookup(TrieAt(tr, r.radix), method, path)
        h0 == IF res.ok THEN res.handler ELSE r.notFound
        h == [h0 EXCEPT !.chain = @ \o r.middleware]
        run == Exec(h, fault)
        out == recover(run)
    IN [found |-> res.ok, handler |-> h,
        params |-> BindParams(res).kv, absent |-> BindParams(res).nil,
        trace |-> run.trace, status |-> out.status, panic |-> out.panic]

\* Router.ServeHTTP after the store of the flag
DispatchG(r, tr, method, path, fault) ==
    LET res == Lookup(TrieAt(tr, r.radix), method, path)
        h0 == IF res.ok THEN res.handler ELSE r.notFound
        h == Wrap(h0, r.middleware)
        run == Exec(h, fault)
        out == recover(run)
    IN [found |-> res.ok, handler |-> h,
        params |-> BindParams(res).kv, absent |-> BindParams(res).nil,
        trace |-> run.trace, status |-> out.status, panic |-> out.panic]

UseGCall ==
    \E mw \in UseArgs :
        /\ Len(handles[1].middleware) + Len(mw) <= MaxChain
        /\ handles' = [handles EXCEPT ![1] = UseG(@, mw)]
        /\ origin' = [origin EXCEPT ![1].arg = @ \o mw]
        /\ UNCHANGED <<tries, flags, served, reg, srv, last, registered, routes, ctx, walk>>

AddGCall ==
    \E method \in RegMethods, path \in RoutePaths, handler \in RouteHandlers,
       middleware \in RouteArgs :
        LET a == addG(handles[1], flags, tries, method, path, handler, middleware)
        IN /\ tries' = a.tries
           /\ last' = AddObs(1, method, path, handler, a)
           /\ registered' = Registered(registered, a, 1, method, path, handler,
                                       middleware)
           /\ UNCHANGED <<handles, flags, served, reg, srv, origin, routes, ctx, walk>>

ServeGCall ==
    \E q \in Requests :
        /\ flags' = StoreStarted(flags, handles[1].started)
        /\ served' = TRUE
        /\ last' = ServeObs(q[1], q[2],
                            DispatchG(handles[1], tries, q[1], q[2], q[3]))
        /\ UNCHANGED <<handles, tries, reg, srv, origin, registered, routes, ctx, walk>>

RunGCall ==
    /\ flags' = StoreStarted(flags, handles[1].started)
    /\ UNCHANGED <<handles, tries, served, reg, srv, last, origin, registered, routes, ctx, walk>>

NextG == UseGCall \/ AddGCall \/ ServeGCall \/ RunGCall

SpecG == Init /\ [][NextG]_vars

(***************************************************************************)
(* The list-built trie on its own: radix.New(routes) builds and compresses *)
(* the trie once, Radix.Lookup reads it.  tries[1] is the trie that New    *)
(* returned, last the outcome of the most recent call.                     *)
(***************************************************************************)
\* the (method, path) pairs the route lists are drawn from; "a" is a path
\* that New rejects, /a/:i and /a/:j differ in the name of a parameter,
\* /a/*p/b has a wildcard before its last segment, //b an empty segment
\* before its last segment
RoutePool ==
    {<<"GET", <<"/">>>>, <<"GET", <<"/", "a">>>>, <<"POST", <<"/", "a">>>>,
     <<"GET", <<"/", "a", "/", "b">>>>, <<"GET", <<"/", "a", "/", "b", "/", "c">>>>,
     <<"GET", <<"/", "a", "/">>>>, <<"GET", <<"/", "a", "b">>>>, <<"GET", <<"a">>>>,
     <<"GET", <<"/", "a", "/", ":", "i">>>>, <<"GET", <<"/", "a", "/", ":", "j">>>>,
     <<"GET", <<"/", "a", "/", "*", "p", "/", "b">>>>,
     <<"GET", <<"/", "/", "b">>>>}

\* the handler of the k-th route of a list
HandlerNames == <<"r1", "r2", "r3", "r4", "r5">>

\* the route list whose k-th route is the pair f[k], with the k-th handler
RouteList(f, n) ==
    [k \in 1..n |-> [Method |-> f[k][1], Path |-> f[k][2],
                     Handler |-> Handler(HandlerNames[k])]]

\* arguments of Radix.Lookup
LookupArgs ==
    {q \in RoutePool : q[2] # <<"a">>}
        \cup {<<"POST", <<"/", "a", "/", "b">>>>, <<"GET", <<"/", "b">>>>,
              <<"GET", <<"/", "a", "/", "b", "/">>>>,
              <<"GET", <<"/", "a", "/", "/", "b">>>>,
              <<"GET", <<"a", "/", "b">>>>}

NewObs(built) ==
    [NoObs EXCEPT !.op = "new",
                  !.panic = IF built.err THEN <<"path must start with '/'">>
                            ELSE <<>>]

LookupObs(method, path, res) ==
    [NoObs EXCEPT !.op = "lookup", !.method = method, !.path = path,
                  !.handler = res.handler, !.found = res.ok]

RadixInit ==
    /\ \E n \in 0..MaxRoutes :
           \E f \in [1..n -> RoutePool] : routes = RouteList(f, n)
    /\ ctx = <<>>
    /\ walk = <<>>
    /\ handles = <<New>>
    /\ tries = <<NewRadix>>
    /\ flags = <<FALSE>>
    /\ served = FALSE
    /\ reg = IdleReg
    /\ srv = IdleSrv
    /\ last = NoObs
    /\ origin = <<RootOrigin>>
    /\ registered = {}

\* r, err := radix.New(routes)
RadixNewCall ==
    /\ last.op = "none"
    /\ LET built == radixNew(routes)
       IN /\ tries' = <<built.root>>
          /\ last' = NewObs(built)
    /\ UNCHANGED <<handles, flags, served, reg, srv, origin, registered, routes, ctx, walk>>

\* r.Lookup(method, path) on the trie that New returned
RadixLookupCall ==
    \E q \in LookupArgs :
        /\ last.op \in {"new", "lookup"}
        /\ last.panic = <<>>
        /\ last' = LookupObs(q[1], q[2], lookup(tries[1], q[1], q[2]))
        /\ UNCHANGED <<handles, tries, flags, served, reg, srv, origin,
                       registered, routes, ctx, walk>>

RadixNext == RadixNewCall \/ RadixLookupCall

RadixSpec == RadixInit /\ [][RadixNext]_vars

(***************************************************************************)
(* Routes with parameters and wildcards, registered and served through the *)
(* router that takes the path with the registration call                   *)
(* (r.GET(path, handler), then ServeHTTP).  routes is the history of the   *)
(* registrations that succeeded; the k-th one has the k-th handler.        *)
(***************************************************************************)
\* the patterns of the registration calls
PatternPool ==
    {<<"/", "u", "/", "l">>, <<"/", "u", "/", ":", "i">>,
     <<"/", "u", "/", ":", "i", "/", "p", "/", ":", "j">>,
     <<"/", "s", "/", "*", "p">>, <<"/", "s", "/", "l">>,
     <<"/", "u", "/", "*", "p">>}

\* the paths of the requests
PatternRequests ==
    {<<"/", "u", "/", "l">>, <<"/", "u", "/", "b">>,
     <<"/", "u", "/", "a", "/", "p", "/", "4">>,
     <<"/", "s", "/", "j", "/", "a">>, <<"/", "s", "/", "l">>, <<"/", "s">>,
     <<"/", "u", "/", "b", "/", "c">>, <<"/", "u">>}

AddPatternCall ==
    \E path \in PatternPool :
        LET handler == HandlerNames[Len(routes) + 1]
            a == addG(handles[1], flags, tries, "GET", path, handler, <<>>)
        IN /\ Len(routes) < MaxRoutes
           /\ tries' = a.tries
           /\ last' = AddObs(1, "GET", path, handler, a)
           /\ registered' = Registered(registered, a, 1, "GET", path, handler,
                                       <<>>)
           /\ routes' = IF a.panic # <<>> THEN routes
                        ELSE Append(routes, [Method |-> "GET", Path |-> path,
                                             Handler |-> Handler(handler)])
           /\ UNCHANGED <<handles, flags, served, reg, srv, origin, ctx, walk>>

ServePatternCall ==
    \E method \in Methods, path \in PatternRequests :
        /\ flags' = StoreStarted(flags, handles[1].started)
        /\ served' = TRUE
        /\ last' = ServeObs(method, path,
                            DispatchG(handles[1], tries, method, path, "none"))
        /\ UNCHANGED <<handles, tries, reg, srv, origin, registered, routes, ctx, walk>>

MatchNext == AddPatternCall \/ ServePatternCall

MatchSpec == Init /\ [][MatchNext]_vars

(***************************************************************************)
(* Requests whose code panics, served by routers built with and without    *)
(* the option WithNotFound: router/router.go, router/options.go            *)
(***************************************************************************)
\* the request lines of Requests
RequestLines == {<<q[1], q[2]>> : q \in Requests}

\* the option lists given to New
OptionLists == {<<>>, << Handler("testNotFound") >>}

FaultInit ==
    /\ \E opts \in OptionLists :
          /\ handles = << NewWith(opts) >>
          /\ origin = << [RootOrigin EXCEPT !.arg = opts] >>
    /\ tries = <<NewRadix>>
    /\ flags = <<FALSE>>
    /\ served = FALSE
    /\ reg = IdleReg
    /\ srv = IdleSrv
    /\ last = NoObs
    /\ registered = {}
    /\ routes = <<>>
    /\ ctx = <<>>
    /\ walk = <<>>

ServeFaultCall ==
    \E i \in DOMAIN handles, q \in RequestLines, fault \in FaultPoints :
        /\ flags' = StoreStarted(flags, handles[i].started)
        /\ served' = TRUE
        /\ last' = [ServeObs(q[1], q[2],
                             Dispatch(handles[i], tries, q[1], q[2], fault))
                        EXCEPT !.h = i]
        /\ UNCHANGED <<handles, tries, reg, srv, origin, registered, routes, ctx, walk>>

FaultNext == PrefixUseCall \/ AddCall \/ ServeFaultCall

FaultSpec == FaultInit /\ [][FaultNext]_vars

(***************************************************************************)
(* The parameter context on its own: bindings and reads in any order       *)
(***************************************************************************)
ParamNames == {<<"i">>, <<"j">>}
ParamValues == {<<"a">>, <<"b">>}

\* the maps handed to WithParams: nil, empty, and every map over ParamNames
ParamMaps ==
    {NilMap} \cup UNION {{MakeMap(f) : f \in [K -> ParamValues]} :
                             K \in SUBSET ParamNames}

ParamsObs(op, m, depth) ==
    [NoObs EXCEPT !.op = op, !.params = m.kv, !.absent = m.nil, !.h = depth]

\* ctx = context.Background()
BackgroundCall ==
    /\ ctx' = Background
    /\ last' = ParamsObs("background", MakeMap(NoParams), 0)
    /\ UNCHANGED <<handles, tries, flags, served, reg, srv, origin, registered,
                   routes, walk>>

\* ctx = WithParams(ctx, m)
WithParamsCall ==
    \E m \in ParamMaps :
        /\ Len(ctx) < MaxBindings
        /\ ctx' = WithParams(ctx, m)
        /\ last' = ParamsObs("with", m, Len(ctx) + 1)
        /\ UNCHANGED <<handles, tries, flags, served, reg, srv, origin,
                       registered, routes, walk>>

\* got := GetParams(ctx)
GetParamsCall ==
    /\ last' = ParamsObs("get", GetParams(ctx), Len(ctx))
    /\ UNCHANGED <<handles, tries, flags, served, reg, srv, origin, registered,
                   routes, ctx, walk>>

ParamsNext == BackgroundCall \/ WithParamsCall \/ GetParamsCall

ParamsSpec == Init /\ [][ParamsNext]_vars

(***************************************************************************)
(* Radix.Lookup one invocation of lookup at a time, with several callers   *)
(* on the trie that radix.New returned.  walk[t] is the frame of caller t: *)
(* the arguments of its call, the node it is at (the child indices from    *)
(* the root), the path that is left, the invocations made, the result.     *)
(***************************************************************************)
\* the goroutines that call Lookup
Walkers == {1, 2}

\* the routes of the tries that are walked: /a has two methods, /a/b and
\* /a/c share a node that has no handler when /a is not listed
WalkRoutes ==
    {<<"GET", <<"/", "a">>>>, <<"POST", <<"/", "a">>>>,
     <<"GET", <<"/", "a", "/", "b">>>>, <<"GET", <<"/", "a", "/", "c">>>>,
     <<"GET", <<"/", "a", "/", "b", "/", "c">>>>}

\* arguments of the Lookup calls
WalkArgs ==
    {<<"GET", <<"/", "a">>>>, <<"POST", <<"/", "a">>>>,
     <<"GET", <<"/", "a", "/", "b">>>>, <<"GET", <<"/", "a", "/", "c">>>>,
     <<"GET", <<"/", "a", "/", "b", "/", "c">>>>, <<"GET", <<"/", "b">>>>}

IdleWalk ==
    [pc |-> "idle", method |-> "", arg |-> <<>>, at |-> <<>>, path |-> <<>>,
     calls |-> 0, handler |-> NoHandler, ok |-> FALSE]

\* the node that the child indices lead to
RECURSIVE NodeOf(_, _)
NodeOf(node, at) ==
    IF at = <<>> THEN node ELSE NodeOf(node.children[at[1]], Tail(at))

\* an invocation of lookup that moves the child it takes to the front of
\* the children of its node
RECURSIVE lookupVisit_moveToFront(_, _, _)
lookupVisit_moveToFront(root, at, i) ==
    IF i = 0 THEN root
    ELSE IF at # <<>>
    THEN [root EXCEPT !.children[at[1]] =
             lookupVisit_moveToFront(@, Tail(at), i)]
    ELSE [root EXCEPT !.children =
             <<@[i]>> \o SubSeq(@, 1, i - 1) \o SubSeq(@, i + 1, Len(@))]

\* the trie after the invocation of lookup at the node `at` that takes child
\* i (0: none): lookup assigns to its own variables (path, handler, ok) and
\* to no field of a node
lookupVisit(root, at, i) == root

\* r, err := radix.New(routes) has returned the trie
WalkInit ==
    /\ \E n \in 0..MaxRoutes :
           \E f \in [1..n -> WalkRoutes] : routes = RouteList(f, n)
    /\ tries = <<radixNew(routes).root>>
    /\ walk = [t \in Walkers |-> IdleWalk]
    /\ ctx = <<>>
    /\ handles = <<New>>
    /\ flags = <<FALSE>>
    /\ served = FALSE
    /\ reg = IdleReg
    /\ srv = IdleSrv
    /\ last = NewObs(radixNew(routes))
    /\ origin = <<RootOrigin>>
    /\ registered = {}

\* a recursive call that is made on the node itself, not on its child
Descend_stay(at, i) == at

\* lookup(child, method, path[len(child.prefix):]): the callee's node is child
\* i of the caller's node
Descend(at, i) == Append(at, i)

\* caller t enters r.Lookup(method, path): lookup(r.root, method, path)
LookupCall(t) ==
    \E q \in WalkArgs :
        /\ walk[t].pc # "run"
        /\ walk' = [walk EXCEPT ![t] =
               [IdleWalk EXCEPT !.pc = "run", !.method = q[1], !.arg = q[2],
                                !.path = q[2]]]
        /\ UNCHANGED <<handles, tries, flags, served, reg, srv, last, origin,
                       registered, routes, ctx>>

\* one invocation of lookup by caller t: it strips one leading '/', answers
\* from the terminal map when nothing is left, and otherwise goes on in the
\* first child whose prefix is a whole-segment prefix of what is left
LookupStep(t) ==
    LET w == walk[t]
        node == NodeOf(tries[1], w.at)
        path == IF Len(w.path) > 0 /\ w.path[1] = "/" THEN Tail(w.path)
                ELSE w.path
        fits(c) == /\ HasPrefix(path, c.prefix)
                   /\ (Len(path) = Len(c.prefix) \/ path[Len(c.prefix) + 1] = "/")
        hits == {i \in DOMAIN node.children : fits(node.children[i])}
        i == IF path = <<>> \/ hits = {} THEN 0 ELSE Least(hits)
        found == path = <<>> /\ w.method \in DOMAIN node.terminal
    IN /\ w.pc = "run"
       /\ walk' = [walk EXCEPT ![t] =
              IF i = 0
              THEN [w EXCEPT !.pc = "done", !.path = path, !.calls = @ + 1,
                             !.ok = found,
                             !.handler = IF found THEN node.terminal[w.method]
                                         ELSE NoHandler]
              ELSE [w EXCEPT !.at = Descend(@, i), !.calls = @ + 1,
                             !.path = SubSeq(path, Len(node.children[i].prefix) + 1,
                                             Len(path))]]
       /\ tries' = <<lookupVisit(tries[1], w.at, i)>>
       /\ UNCHANGED <<handles, flags, served, reg, srv, last, origin,
                      registered, routes, ctx>>

WalkNext == \E t \in Walkers : LookupCall(t) \/ LookupStep(t)

WalkSpec == WalkInit /\ [][WalkNext]_vars

\* one caller on its own; the goroutine that is inside lookup keeps being
\* scheduled
WalkFairSpec ==
    /\ WalkInit
    /\ [][LookupCall(1) \/ LookupStep(1)]_vars
    /\ WF_vars(LookupStep(1))

(***************************************************************************)
(* Groups: router/subrouter.go on the router that takes the path with the  *)
(* registration call.  handles[2] is the variable that holds the SubRouter *)
(* (api := r.Group(prefix)), a record of the router it points to and its   *)
(* prefix.                                                                 *)
(***************************************************************************)
\* NewSubRouter(r, prefix); indexing the trimmed prefix at len-1 is a run-time
\* panic when nothing is left of the prefix
NewSubRouter(r, prefix) ==
    IF Len(prefix) < 1 THEN [panic |-> <<"prefix cannot be an empty string">>]
    ELSE IF prefix[1] # "/"
    THEN [panic |-> <<"prefix ", prefix, " does not start with a '/'">>]
    ELSE LET trimedPrefix == TrimRight(prefix, "/")
         IN IF Len(trimedPrefix) = 0
            THEN [panic |-> <<"runtime error: index out of range [-1]">>]
            ELSE IF trimedPrefix[Len(trimedPrefix)] = "*"
            THEN [panic |-> <<"prefix ", prefix, " cannot end in a wildcard '*'">>]
            ELSE [panic |-> <<>>, sub |-> [r |-> r, prefix |-> trimedPrefix]]

\* every prefix of up to MaxPrefixLen characters
PrefixStrings == UNION {[1..n -> {"/", "a", "*"}] : n \in 0..MaxPrefixLen}

\* the prefixes of the groups that routes are registered on
GroupArgs == {<<"/", "a">>, <<"/", "a", "/">>, <<"/", "a", "/", "a">>, <<"a">>}

\* api := r.Group(prefix), for a prefix of the given set
GroupCall(prefixes) ==
    \E prefix \in prefixes :
        LET s == NewSubRouter(1, prefix)
        IN /\ handles' = IF s.panic = <<>> THEN <<handles[1], s.sub>> ELSE handles
           /\ origin' = IF s.panic = <<>>
                        THEN <<origin[1], [parent |-> 1, op |-> "group",
                                           arg |-> prefix]>>
                        ELSE origin
           /\ last' = [NoObs EXCEPT !.op = "group", !.path = prefix,
                                    !.panic = s.panic]
           /\ UNCHANGED <<tries, flags, served, reg, srv, registered, routes,
                          ctx, walk>>

GroupSpec == Init /\ [][GroupCall(PrefixStrings)]_vars

\* SubRouter.add that joins the prefix and the path as they are
subAdd_noTrim(hs, s, fl, tr, method, path, handler, middleware) ==
    LET fullPath == s.prefix \o <<"/">> \o path
        a == addG(hs[s.r], fl, tr, method, fullPath, handler, middleware)
    IN [panic |-> a.panic, tries |-> a.tries, path |-> fullPath]

\* SubRouter.add: s.r.add(method, s.prefix + "/" + TrimLeft(path, "/"), ...)
subAdd(hs, s, fl, tr, method, path, handler, middleware) ==
    LET fullPath == s.prefix \o <<"/">> \o TrimLeft(path, "/")
        a == addG(hs[s.r], fl, tr, method, fullPath, handler, middleware)
    IN [panic |-> a.panic, tries |-> a.tries, path |-> fullPath]

\* api.GET(path, handler, middleware...)
SubAddCall ==
    \E method \in RegMethods, path \in {<<"/", "a">>, <<"a">>, <<>>},
       handler \in RouteHandlers, middleware \in {<<>>, <<"m1">>} :
        /\ Len(handles) = 2
        /\ LET a == subAdd(handles, handles[2], flags, tries, method, path,
                           handler, middleware)
           IN /\ tries' = a.tries
              /\ last' = [AddObs(2, method, path, handler, a) EXCEPT
                             !.op = "subadd"]
              /\ registered' = Registered(registered, a, 2, method, a.path,
                                          handler, middleware)
        /\ UNCHANGED <<handles, flags, served, reg, srv, origin, routes, ctx, walk>>

SubNext == GroupCall(GroupArgs) \/ SubAddCall \/ ServeGCall

SubSpec == Init /\ [][SubNext]_vars

(***************************************************************************)
(* The JSON adapter: adapters/json.go.  A handler returns a response and   *)
(* an error; last is what the adapter was given and what it wrote.         *)
(***************************************************************************)
\* the values of resp.Status that a handler returns: 0 (not set) and status
\* codes of every class
StatusCodes ==
    {0, 100, 101, 200, 201, 202, 204, 301, 302, 304, 307, 400, 401, 403, 404,
     405, 409, 410, 418, 422, 429, 500, 501, 502, 503, 504}

\* JsonAdapter(w, req, handler) for a handler that returns (resp, err), err
\* non-nil when failed; marshals tells whether json.Marshal(resp.Body)
\* succeeds (the marshalling of the error message always does)
JsonAdapter(resp, failed, marshals) ==
    IF failed
    THEN [contentType |-> "application/json",
          status |-> WriteHeader(0, IF resp.Status = 0 THEN 500 ELSE resp.Status),
          body |-> "error"]
    ELSE IF ~marshals
    THEN [contentType |-> "text/plain; charset=utf-8",
          status |-> WriteHeader(0, 500),
          body |-> "failed to marshal response"]
    ELSE [contentType |-> "application/json",
          status |-> WriteHeader(0, IF resp.Status = 0 THEN 200 ELSE resp.Status),
          body |-> "data"]

\* a request goes through the adapter
JsonCall ==
    \E code \in StatusCodes, failed \in BOOLEAN, marshals \in BOOLEAN,
       q \in RequestLines :
        /\ last' = [op |-> "json", method |-> q[1], path |-> q[2],
                    resp |-> [Status |-> code], failed |-> failed,
                    wrote |-> JsonAdapter([Status |-> code], failed, marshals)]
        /\ UNCHANGED <<handles, tries, flags, served, reg, srv, origin,
                       registered, routes, ctx, walk>>

JsonSpec == Init /\ [][JsonCall]_vars

(***************************************************************************)
(* Vocabulary of the properties                                            *)
(***************************************************************************)
\* the flag as handle i sees it
StartedOf(i) == FlagAt(flags, handles[i].started)
Started == \E i \in DOMAIN handles : StartedOf(i)

\* the trie of the root handle
Root == TrieAt(tries, handles[1].radix)

\* the (method, path) pairs that Lookup reports found
Matchable(tr) ==
    {q \in Requests : Lookup(TrieAt(tr, 1), q[1], q[2]).ok}

\* the handler stored under method at the node that the segments of path lead
\* to from the root, NoHandler when there is none
RECURSIVE NodeAt(_, _, _)
NodeAt(node, segments, pos) ==
    IF pos > Len(segments) THEN node
    ELSE LET i == FirstChild(node.children, segments[pos])
         IN IF i = 0 THEN Node(<<>>)
            ELSE NodeAt(node.children[i], segments, pos + 1)

Stored(root, method, path) ==
    LET n == NodeAt(root, Segments(path), 1)
    IN IF method \in DOMAIN n.terminal THEN n.terminal[method] ELSE NoHandler

\* the middleware passed to Use along the derivation path of handle i, in
\* call order
RECURSIVE ChainAlong(_)
ChainAlong(i) ==
    IF origin[i].parent = 0 THEN <<>>
    ELSE ChainAlong(origin[i].parent)
             \o (IF origin[i].op = "use" THEN origin[i].arg ELSE <<>>)

RunningPanic(path) ==
    <<"cannot register path: ", path, " since the router is running">>

\* the log of a request that passes the middleware mws, first one outermost,
\* around the handler base
ExpectedTrace(mws, base) ==
    LET n == Len(mws)
    IN [k \in 1..(2 * n + 1) |->
           IF k <= n THEN <<"enter", mws[k]>>
           ELSE IF k = n + 1 THEN <<"call", base>>
           ELSE <<"exit", mws[2 * n + 2 - k]>>]

\* the log of a request whose handler panics under the middleware mws
ExpectedPanicTrace(mws, base) ==
    [k \in 1..(Len(mws) + 1) |->
        IF k <= Len(mws) THEN <<"enter", mws[k]>> ELSE <<"panic", base>>]

\* the registrations that a request for (method, path) resolves to
RoutesOf(method, path) ==
    {x \in registered : x.method = method /\ Segments(x.path) = Segments(path)}

\* the longest prefix of s that does not end with c
WithoutTrailing(s, c) ==
    LET keep == {n \in 0..Len(s) : n = 0 \/ s[n] # c}
        n == CHOOSE m \in keep : \A k \in keep : k <= m
    IN SubSeq(s, 1, n)

\* the longest suffix of s that does not start with c
WithoutLeading(s, c) ==
    LET keep == {n \in 1..(Len(s) + 1) : n = Len(s) + 1 \/ s[n] # c}
        n == CHOOSE m \in keep : \A k \in keep : m <= k
    IN SubSeq(s, n, Len(s))

\* the positions of the route list that hold (method, path)
RoutesAt(method, path) ==
    {k \in DOMAIN routes : routes[k].Method = method /\ routes[k].Path = path}

Greatest(S) == CHOOSE i \in S : \A j \in S : j <= i

\* the patterns and requests the properties of the matcher name
UserList == <<"/", "u", "/", "l">>
UserId == <<"/", "u", "/", ":", "i">>
UserPost == <<"/", "u", "/", ":", "i", "/", "p", "/", ":", "j">>
UserRest == <<"/", "u", "/", "*", "p">>
StaticRest == <<"/", "s", "/", "*", "p">>
StaticList == <<"/", "s", "/", "l">>

\* the handler of the latest registration of (GET, path)
LatestHandler(path) == routes[Greatest(RoutesAt("GET", path))].Handler

\* a served GET request
ServedGet ==
    last.op = "serve" /\ last.method = "GET"

\* the step is a registration call that returned or panicked
IsAddStep == last'.op = "add" /\ last' # last

(***************************************************************************)
(* C1. Registration lockout: once a ServeHTTP call has run, every          *)
(* registration call through any handle panics with "cannot register       *)
(* path: <prefix> since the router is running" and leaves the set of       *)
(* matchable (method, path) pairs as it was.                               *)
(***************************************************************************)
C1_RegistrationLockout ==
    [][(served /\ IsAddStep) =>
           /\ last'.panic = RunningPanic(handles[last'.h].prefix)
           /\ Matchable(tries') = Matchable(tries)
           /\ tries' = tries]_vars

C1_Witness ==
    /\ served
    /\ last.op = "add"
    /\ last.panic = RunningPanic(last.path)
    /\ Matchable(tries) # {}

(***************************************************************************)
(* C2. The claim as stated: in every interleaving of a registration call   *)
(* with ServeHTTP calls on other threads, the trie is never written while  *)
(* the serving flag is set.                                                *)
(***************************************************************************)
C2_NoWriteWhileServing == [][tries' # tries => ~Started]_vars

(***************************************************************************)
(* C2, amended. A registration call that loads the flag after it was set   *)
(* panics without touching the trie: while the flag is set and no          *)
(* registration is past its check, no step takes a registration past the   *)
(* check or writes the trie.                                               *)
(***************************************************************************)
C2_CheckAfterFlagFails ==
    [][(Started /\ reg.pc = "idle") =>
           /\ reg'.pc = "idle"
           /\ tries' = tries
           /\ (IsAddStep => last'.panic = RunningPanic(handles[last'.h].prefix))]_vars

C2_Witness ==
    /\ Started
    /\ reg.pc = "idle"
    /\ last.op = "add"
    /\ last.panic = RunningPanic(last.path)
    /\ registered # {}

(***************************************************************************)
(* C3. The serving flag is monotonic: false at construction, true after    *)
(* every step that stores it (ServeHTTP, Run), and once true it stays true *)
(* for every handle through every later call.                              *)
(***************************************************************************)
C3_FlagMonotonic ==
    /\ \A i \in DOMAIN handles : ~StartedOf(i)
    /\ [][/\ \A i \in DOMAIN handles :
                StartedOf(i) => FlagAt(flags', handles'[i].started)
          /\ (served' \/ flags' # flags) =>
                \A i \in DOMAIN handles' : FlagAt(flags', handles'[i].started)]_vars

C3_Witness ==
    /\ Started
    /\ last.op = "serve"
    /\ last.status = 500
    /\ Len(handles) > 1

(***************************************************************************)
(* C4. Prefix and Use return a new handle and leave every existing handle  *)
(* as it was, and a registration through handle h inserts the handler at   *)
(* h's prefix wrapped by h's middleware chain, also after handles were     *)
(* derived from h.                                                         *)
(***************************************************************************)
C4_ParentNotMutated ==
    [][/\ \A i \in DOMAIN handles :
             i \in DOMAIN handles' /\ handles'[i] = handles[i]
       /\ handles' # handles => Len(handles') = Len(handles) + 1
       /\ (IsAddStep /\ last'.panic = <<>>) =>
             LET h == last'.h
             IN /\ handles[h].prefix = last'.path
                /\ handles[h].middleware = ChainAlong(h)
                /\ Stored(TrieAt(tries', handles[h].radix), last'.method,
                          handles[h].prefix)
                      = Wrap(last'.handler, handles[h].middleware)]_vars

C4_Witness ==
    /\ last.op = "add"
    /\ last.panic = <<>>
    /\ \E j \in DOMAIN handles :
          /\ origin[j].parent = last.h
          /\ handles[j].middleware # handles[last.h].middleware
          /\ handles[j].prefix # handles[last.h].prefix

(***************************************************************************)
(* C5. Siblings a = p.Use(x) and b = p.Use(y) do not see each other's      *)
(* middleware: the chain of a is p's chain followed by x only, and every   *)
(* route registered through a is stored wrapped by exactly that chain.     *)
(***************************************************************************)
Siblings(a, b) ==
    /\ a # b
    /\ origin[a].parent = origin[b].parent
    /\ origin[a].parent # 0
    /\ origin[a].op = "use"
    /\ origin[b].op = "use"

C5_SiblingIsolation ==
    \A a \in DOMAIN handles, b \in DOMAIN handles :
        Siblings(a, b) =>
            LET chain == ChainAlong(origin[a].parent) \o origin[a].arg
            IN /\ handles[a].middleware = chain
               /\ \A x \in registered :
                     x.h = a =>
                        Stored(Root, x.method, x.path)
                            = Wrap(Handler(x.base), chain)

C5_Witness ==
    \E a \in DOMAIN handles, b \in DOMAIN handles :
        /\ Siblings(a, b)
        /\ origin[a].arg # <<>>
        /\ origin[b].arg # <<>>
        /\ origin[a].arg # origin[b].arg
        /\ \E x \in registered : x.h = a

(***************************************************************************)
(* C6. All handles of one root share one trie and one serving flag: a      *)
(* route registered through any handle is matched by ServeHTTP on every    *)
(* handle, and a ServeHTTP call on one handle sets the flag that all of    *)
(* them see.                                                               *)
(***************************************************************************)
C6_SharedTrieAndFlag ==
    [][/\ \A i \in DOMAIN handles', j \in DOMAIN handles' :
             /\ handles'[i].radix = handles'[j].radix
             /\ handles'[i].started = handles'[j].started
       /\ (IsAddStep /\ last'.panic = <<>>) =>
             \A j \in DOMAIN handles' :
                LET d == Dispatch(handles'[j], tries', last'.method, last'.path,
                                  "none")
                IN /\ d.found
                   /\ d.handler = Wrap(last'.handler, handles[last'.h].middleware)
       /\ (last'.op = "serve" /\ last' # last) =>
             \A j \in DOMAIN handles' : FlagAt(flags', handles'[j].started)]_vars

C6_Witness ==
    /\ Len(handles) > 1
    /\ \A j \in DOMAIN handles : StartedOf(j)
    /\ last.op = "serve"
    /\ last.found
    /\ \E x \in registered :
          /\ x.h # 1
          /\ Dispatch(handles[1], tries, x.method, x.path, "none").found

(***************************************************************************)
(* C7. The chain of a handle is the concatenation, along its derivation    *)
(* path from the root, of the arguments of the Use calls in call order and *)
(* in listed order; Prefix contributes nothing.                            *)
(***************************************************************************)
C7_ChainIsConcatenation ==
    \A i \in DOMAIN handles :
        /\ handles[i].middleware = ChainAlong(i)
        /\ origin[i].op = "prefix" =>
              handles[i].middleware = handles[origin[i].parent].middleware
        /\ origin[i].op = "use" =>
              handles[i].middleware
                  = handles[origin[i].parent].middleware \o origin[i].arg

C7_Witness ==
    \E i \in DOMAIN handles, j \in DOMAIN handles :
        /\ origin[j].parent = i
        /\ origin[i].op = "use"
        /\ origin[i].arg = <<"m2">>
        /\ origin[j].op = "use"
        /\ origin[j].arg = <<"m1">>
        /\ handles[j].middleware = <<"m2", "m1">>

(***************************************************************************)
(* C8. A request that resolves to a route passes the middleware of the     *)
(* registering handle first-registered outermost: it enters m1 ... mn in   *)
(* the order of their Use calls, then the handler runs, then it leaves     *)
(* mn ... m1.                                                              *)
(***************************************************************************)
C8_FirstRegisteredOutermost ==
    (last.op = "serve" /\ last.found) =>
        \E x \in RoutesOf(last.method, last.path) :
            IF last.status = 500
            THEN last.trace = ExpectedPanicTrace(ChainAlong(x.h), x.base)
            ELSE last.trace = ExpectedTrace(ChainAlong(x.h), x.base)

C8_Witness ==
    /\ last.op = "serve"
    /\ last.trace = << <<"enter", "m2">>, <<"enter", "m1">>, <<"call", "h1">>,
                       <<"exit", "m1">>, <<"exit", "m2">> >>

(***************************************************************************)
(* C9. In the router with global and route-specific middleware a request   *)
(* that resolves to a route passes the global middleware in the order of   *)
(* the Use calls, then the middleware of the route in listed order, then   *)
(* the handler; a route registered without middleware passes the global    *)
(* middleware only.                                                        *)
(***************************************************************************)
C9_GlobalThenRoute ==
    [][(last'.op = "serve" /\ last'.found /\ last' # last) =>
           \E x \in RoutesOf(last'.method, last'.path) :
               IF last'.status = 500
               THEN last'.trace = ExpectedPanicTrace(origin[1].arg \o x.chain, x.base)
               ELSE last'.trace = ExpectedTrace(origin[1].arg \o x.chain, x.base)]_vars

C9_Witness ==
    /\ last.op = "serve"
    /\ origin[1].arg = <<"m1", "m2">>
    /\ last.trace = << <<"enter", "m1">>, <<"enter", "m2">>, <<"enter", "m2">>,
                       <<"enter", "m1">>, <<"call", "h1">>, <<"exit", "m1">>,
                       <<"exit", "m2">>, <<"exit", "m2">>, <<"exit", "m1">> >>
    /\ \E x \in registered :
          /\ x.chain = <<>>
          /\ DispatchG(handles[1], tries, x.method, x.path, "none").trace
                = ExpectedTrace(<<"m1", "m2">>, x.base)

(***************************************************************************)
(* C10. The middleware of a route is fixed when it is registered: it is    *)
(* the chain that the registering handle had at that call, and ServeHTTP   *)
(* through every handle, also through handles with other chains and        *)
(* handles derived afterwards, runs the route under exactly that chain.    *)
(***************************************************************************)
C10_ChainFixedAtRegistration ==
    \A x \in registered :
        /\ x.chain = handles[x.h].middleware
        /\ \A j \in DOMAIN handles :
              LET d == Dispatch(handles[j], tries, x.method, x.path, "none")
              IN /\ d.found
                 /\ d.trace = ExpectedTrace(x.chain, x.base)

C10_Witness ==
    /\ last.op = "serve"
    /\ last.found
    /\ \E x \in registered, j \in DOMAIN handles :
          /\ x.chain # <<>>
          /\ origin[j].parent = x.h
          /\ handles[j].middleware # x.chain
          /\ last.trace = ExpectedTrace(x.chain, x.base)

(***************************************************************************)
(* C11. For a non-empty segment, h.Prefix(segment) has the prefix of h     *)
(* without its trailing "/", then one "/", then the segment without its    *)
(* leading "/", so the two parts are joined by exactly one "/"; for the    *)
(* empty segment the new handle has the prefix and the middleware of h.    *)
(***************************************************************************)
C11_PrefixJoin ==
    \A i \in DOMAIN handles :
        origin[i].op = "prefix" =>
            LET h == handles[origin[i].parent]
                segment == origin[i].arg
                left == WithoutTrailing(h.prefix, "/")
                right == WithoutLeading(segment, "/")
            IN /\ i # origin[i].parent
               /\ segment = <<>> =>
                     /\ handles[i].prefix = h.prefix
                     /\ handles[i].middleware = h.middleware
               /\ segment # <<>> =>
                     /\ handles[i].prefix = left \o <<"/">> \o right
                     /\ left = <<>> \/ left[Len(left)] # "/"
                     /\ right = <<>> \/ right[1] # "/"

C11_Witness ==
    \E i \in DOMAIN handles, j \in DOMAIN handles :
        /\ origin[i].op = "prefix"
        /\ origin[i].arg = <<"/", "a">>
        /\ handles[origin[i].parent].prefix = <<"/">>
        /\ handles[i].prefix = <<"/", "a">>
        /\ origin[j].op = "prefix"
        /\ origin[j].arg = <<"/">>

(***************************************************************************)
(* C12. For every route list whose paths start with "/", the root path "/" *)
(* included, Lookup(method, path) on the trie that New returned reports    *)
(* found for every (method, path) of the list and returns the handler of   *)
(* the last route of the list with that method and path.                   *)
(***************************************************************************)
C12_RegisteredRoutesFound ==
    last.op = "lookup" =>
        LET ks == RoutesAt(last.method, last.path)
        IN ks # {} =>
              /\ last.found
              /\ last.handler = routes[Greatest(ks)].Handler

(***************************************************************************)
(* C13. Method isolation: Lookup(m, p) returns only a handler of a route   *)
(* that was listed under m, and when the list holds p under other methods  *)
(* only, the result is not found.                                          *)
(***************************************************************************)
C13_MethodIsolation ==
    last.op = "lookup" =>
        /\ last.found =>
              \E k \in DOMAIN routes :
                  /\ routes[k].Method = last.method
                  /\ routes[k].Handler = last.handler
        /\ (RoutesAt(last.method, last.path) = {}
            /\ \E m \in Methods : RoutesAt(m, last.path) # {}) => ~last.found

C13_Witness ==
    /\ last.op = "lookup"
    /\ last.method = "POST"
    /\ ~last.found
    /\ RoutesAt("GET", last.path) # {}
    /\ lookup(tries[1], "GET", last.path).ok

(***************************************************************************)
(* C14. Static precedence: with /u/l and /u/:i both registered, in either  *)
(* order, a request for /u/l gets the handler of /u/l with no parameters   *)
(* and a request for another single segment, /u/b, gets the handler of     *)
(* /u/:i with i bound to b.                                                *)
(***************************************************************************)
C14_StaticPrecedence ==
    (ServedGet /\ RoutesAt("GET", UserList) # {} /\ RoutesAt("GET", UserId) # {}) =>
        /\ last.path = UserList =>
              /\ last.found
              /\ last.handler = LatestHandler(UserList)
              /\ last.params = NoParams
        /\ last.path = <<"/", "u", "/", "b">> =>
              /\ last.found
              /\ last.handler = LatestHandler(UserId)
              /\ last.params = (<<"i">> :> <<"b">>)

C14_Witness ==
    /\ ServedGet
    /\ Len(routes) >= 2
    /\ routes[1].Path = UserId
    /\ routes[2].Path = UserList
    /\ last.path = UserList
    /\ last.handler = routes[2].Handler

(***************************************************************************)
(* C15. A trailing wildcard *p takes the whole rest of the path, "/"       *)
(* included, and binds it to p: /s/*p against /s/j/a binds p to j/a.  The  *)
(* wildcard child is taken only when no literal child of the node fits and *)
(* the node has no parameter child.                                        *)
(***************************************************************************)
C15_WildcardTakesRest ==
    ServedGet =>
        /\ (RoutesAt("GET", StaticRest) # {}
            /\ last.path = <<"/", "s", "/", "j", "/", "a">>) =>
              /\ last.found
              /\ last.handler = LatestHandler(StaticRest)
              /\ last.params = (<<"p">> :> <<"j", "/", "a">>)
        /\ (RoutesAt("GET", StaticRest) # {} /\ last.found
            /\ last.handler = LatestHandler(StaticRest)) =>
              /\ last.params = (<<"p">> :> SubSeq(last.path, 4, Len(last.path)))
              /\ ~(RoutesAt("GET", StaticList) # {} /\ last.path = StaticList)
        /\ (RoutesAt("GET", UserRest) # {} /\ last.found
            /\ last.handler = LatestHandler(UserRest)) =>
              /\ last.params = (<<"p">> :> SubSeq(last.path, 4, Len(last.path)))
              /\ RoutesAt("GET", UserId) = {}
              /\ RoutesAt("GET", UserPost) = {}
              /\ ~(RoutesAt("GET", UserList) # {} /\ last.path = UserList)

C15_Witness ==
    /\ ServedGet
    /\ RoutesAt("GET", StaticList) # {}
    /\ RoutesAt("GET", StaticRest) # {}
    /\ last.path = <<"/", "s", "/", "j", "/", "a">>
    /\ last.handler = LatestHandler(StaticRest)
    /\ last.params = (<<"p">> :> <<"j", "/", "a">>)

(***************************************************************************)
(* C16. A parameter takes exactly one segment of the request and all the   *)
(* bindings of the matched path are returned together: /u/:i/p/:j against  *)
(* /u/a/p/4 binds i to a and j to 4, and /u/:i does not take the two       *)
(* segments of /u/b/c.                                                     *)
(***************************************************************************)
C16_ParametersBindOneSegment ==
    ServedGet =>
        /\ (RoutesAt("GET", UserPost) # {}
            /\ last.path = <<"/", "u", "/", "a", "/", "p", "/", "4">>) =>
              /\ last.found
              /\ last.handler = LatestHandler(UserPost)
              /\ last.params = (<<"i">> :> <<"a">>) @@ (<<"j">> :> <<"4">>)
        /\ (RoutesAt("GET", UserId) # {}
            /\ last.path = <<"/", "u", "/", "b", "/", "c">>) => ~last.found
        /\ (last.found /\ RoutesAt("GET", UserId) # {}
            /\ last.handler = LatestHandler(UserId)) =>
              /\ Len(last.path) = 4
              /\ last.params = (<<"i">> :> <<last.path[4]>>)

C16_Witness ==
    /\ ServedGet
    /\ last.found
    /\ last.path = <<"/", "u", "/", "a", "/", "p", "/", "4">>
    /\ last.params = (<<"i">> :> <<"a">>) @@ (<<"j">> :> <<"4">>)
    /\ RoutesAt("GET", UserId) # {}

(***************************************************************************)
(* C17. Compression transparency: for every route list and every request,  *)
(* Lookup on the trie that New returned, which went through the            *)
(* compression pass, gives the same found/not-found outcome and the same   *)
(* handler as Lookup on the trie built from the same list without the      *)
(* pass.                                                                   *)
(***************************************************************************)
C17_CompressionTransparent ==
    last.op = "lookup" =>
        LET plain == lookup(radixNew_uncompressed(routes).root, last.method,
                            last.path)
        IN /\ last.found = plain.ok
           /\ last.handler = plain.handler

(***************************************************************************)
(* Faults                                                                  *)
(***************************************************************************)
\* the code that ran for the request panicked
Faulted(trace) == \E k \in DOMAIN trace : trace[k][1] = "panic"

\* the route's handler panicked
HandlerFaulted(trace) ==
    \E k \in DOMAIN trace : trace[k][1] = "panic" /\ trace[k][2] \in RouteHandlers

\* a step that serves a request whose handler panics
IsHandlerFaultStep ==
    /\ last' # last
    /\ last'.op = "serve"
    /\ HandlerFaulted(last'.trace)

\* every request is dispatched after the step as it was before it
DispatchUnchanged ==
    \A j \in DOMAIN handles, q \in RequestLines, fault \in FaultPoints :
        /\ j \in DOMAIN handles'
        /\ Dispatch(handles'[j], tries', q[1], q[2], fault)
               = Dispatch(handles[j], tries, q[1], q[2], fault)

\* C18 as stated: a request whose handler panics does not end the serving
\* and leaves the trie, the serving flag and all handles as they were, so
\* that every later request is dispatched as if it had not occurred.
C18_FaultLeavesStateUnchanged ==
    [][IsHandlerFaultStep =>
          /\ last'.panic = <<>>
          /\ tries' = tries
          /\ flags' = flags
          /\ handles' = handles
          /\ DispatchUnchanged]_vars

\* C18 amended: a request whose handler panics does not end the serving and
\* leaves the trie and all handles as they were; the serving flag is set
\* after it as after every request (it changes when the request is the first
\* one served); every later request is dispatched as if it had not occurred.
C18_FaultContained ==
    [][IsHandlerFaultStep =>
          /\ last'.panic = <<>>
          /\ tries' = tries
          /\ handles' = handles
          /\ flags' = Put(flags, 1, TRUE)
          /\ \A i \in DOMAIN handles' : FlagAt(flags', handles'[i].started)
          /\ DispatchUnchanged]_vars

\* a request whose handler panicked under a middleware was answered, and the
\* flag is set
C18_Witness ==
    /\ last.op = "serve"
    /\ HandlerFaulted(last.trace)
    /\ Len(last.trace) > 1
    /\ last.status = 500
    /\ last.panic = <<>>
    /\ Started
    /\ Len(handles) > 1

\* C19: whenever the handler, a middleware or the responder they
\* return panics for a request, the panic does not leave ServeHTTP and the
\* status of the response is 500.
C19_FaultAnswers500 ==
    (last.op = "serve" /\ Faulted(last.trace)) =>
        /\ last.panic = <<>>
        /\ last.status = 500

(***************************************************************************)
(* Lookup misses                                                           *)
(***************************************************************************)
\* the not-found handler that the router was configured with: the last one
\* given through WithNotFound, the default one when none was given
ConfiguredNotFound ==
    LET opts == origin[1].arg
    IN IF opts = <<>> THEN DefaultNotFoundHandler ELSE opts[Len(opts)]

\* the number of times that the code of the handler base ran
Calls(trace, base) ==
    Cardinality({k \in DOMAIN trace : trace[k] = <<"call", base>>})

\* C20: for every request that no registered (method, path) matches,
\* ServeHTTP runs the configured not-found handler (the default one, or the
\* one given through WithNotFound) exactly once, with an empty parameter map,
\* and no registered route handler runs; the miss is answered as a normal
\* response, not as a fault.
C20_MissRunsNotFound ==
    (last.op = "serve" /\ RoutesOf(last.method, last.path) = {}) =>
        /\ ~last.found
        /\ last.handler = ConfiguredNotFound
        /\ Calls(last.trace, ConfiguredNotFound.base) = 1
        /\ \A k \in DOMAIN last.trace : last.trace[k][2] \notin RouteHandlers
        /\ last.params = NoParams
        /\ ~Faulted(last.trace)
        /\ last.panic = <<>>
        /\ last.status = BaseStatus(ConfiguredNotFound.base)

\* a router built with WithNotFound that holds a route answered a request
\* for another path with the handler given
C20_Witness ==
    /\ last.op = "serve"
    /\ ~last.found
    /\ registered # {}
    /\ RoutesOf(last.method, last.path) = {}
    /\ last.handler = Handler("testNotFound")
    /\ last.trace = << <<"call", "testNotFound">> >>
    /\ last.status = 404

ParamNamesDiffer(p, q) ==
    LET ps == Split(p, "/")
        qs == Split(q, "/")
    IN /\ p # q
       /\ Len(ps) = Len(qs)
       /\ \A k \in DOMAIN ps :
              \/ ps[k] = qs[k]
              \/ (IsParam([prefix |-> ps[k]]) /\ IsParam([prefix |-> qs[k]]))

\* the node, or a node below it, has two parameter children
RECURSIVE HasSiblingParams(_)
HasSiblingParams(node) ==
    \/ Cardinality({i \in DOMAIN node.children : IsParam(node.children[i])}) > 1
    \/ \E i \in DOMAIN node.children : HasSiblingParams(node.children[i])

\* C23: a route list with two patterns that differ only in the name of a
\* parameter at the same position (/a/:i, then /a/:j) makes the construction
\* fail with an error, and the second pattern does not become a second
\* parameter child of the node.
C23_ParamNameConflictRejected ==
    (/\ last.op = "new"
     /\ \E j, k \in DOMAIN routes :
            j < k /\ ParamNamesDiffer(routes[j].Path, routes[k].Path))
        => (last.panic # <<>> /\ ~HasSiblingParams(tries[1]))

\* the path is one that radix.New rejects
Malformed(path) == Len(path) = 0 \/ path[1] # "/"

\* C24: a route whose path is empty or does not start with "/" is reported
\* to the caller when it is registered and only that route is dropped: the
\* well-formed routes given with it are in the trie and are found.
C24_MalformedPathAbortsOnlyThatRoute ==
    (/\ last.op = "new"
     /\ \E k \in DOMAIN routes : Malformed(routes[k].Path))
        => /\ last.panic # <<>>
           /\ \A j \in DOMAIN routes :
                 (/\ ~Malformed(routes[j].Path)
                  /\ Segments(routes[j].Path) = Tail(Split(routes[j].Path, "/")))
                     => lookup(tries[1], routes[j].Method, routes[j].Path).ok

\* the path has a wildcard segment before its last segment
WildcardInside(path) ==
    LET segs == Split(path, "/")
    IN \E k \in DOMAIN segs : k < Len(segs) /\ IsWildcard([prefix |-> segs[k]])

\* the node, or a node below it, is a wildcard node with children
RECURSIVE HasWildcardParent(_)
HasWildcardParent(node) ==
    \/ IsWildcard(node) /\ node.children # <<>>
    \/ \E i \in DOMAIN node.children : HasWildcardParent(node.children[i])

\* C25: a pattern with a wildcard segment before its last segment is
\* rejected with an error when it is registered, so that no wildcard node of
\* the trie has children.
C25_WildcardOnlyLast ==
    last.op = "new" =>
        /\ (\E k \in DOMAIN routes : WildcardInside(routes[k].Path))
               => last.panic # <<>>
        /\ ~HasWildcardParent(radixNew_uncompressed(routes).root)

\* C26: a route list that holds the same (method, path) twice is built
\* without error and the later handler replaces the earlier one: Lookup of
\* (method, path) returns the handler of the last of these routes.  What is
\* stored under other methods and other paths is the same as without the
\* earlier route.
C26_SecondRegistrationReplaces ==
    (last.op = "lookup" /\ Cardinality(RoutesAt(last.method, last.path)) >= 2) =>
        /\ last.found
        /\ last.handler = routes[Greatest(RoutesAt(last.method, last.path))].Handler

(***************************************************************************)
(* Lookup in the list-built trie                                           *)
(***************************************************************************)
\* the routes of the list under the method whose segments are those of path
RoutesWithSegments(method, path) ==
    {k \in DOMAIN routes : /\ routes[k].Method = method
                           /\ Segments(routes[k].Path) = Segments(path)}

\* C27: a literal node matches only a whole segment of the request, so a
\* request is found only when a route with the same segments is listed
\* under its method: /a is not matched by /ab, /ab is not matched by /a,
\* and a request with fewer segments (/a for /a/b) or more segments
\* (/a/b/c for /a/b) than a route is not found through that route.
C27_LiteralMatchAtBoundary ==
    (last.op = "lookup" /\ last.found) =>
        /\ RoutesWithSegments(last.method, last.path) # {}
        /\ \E k \in RoutesWithSegments(last.method, last.path) :
               routes[k].Handler = last.handler

\* with /a and /a/b listed, /ab was looked up and not found
C27_Witness ==
    /\ last.op = "lookup"
    /\ last.method = "GET"
    /\ last.path = <<"/", "a", "b">>
    /\ ~last.found
    /\ RoutesAt("GET", <<"/", "a">>) # {}
    /\ RoutesAt("GET", <<"/", "a", "/", "b">>) # {}
    /\ RoutesAt("GET", <<"/", "a", "b">>) = {}

(***************************************************************************)
(* The shape of the trie that New returns                                  *)
(***************************************************************************)
\* the node has a child or a handler
Useful(node) == node.children # <<>> \/ node.terminal # NilTerminal

\* every node below the given one has a child or a handler
RECURSIVE UsefulBelow(_)
UsefulBelow(node) ==
    \A i \in DOMAIN node.children :
        Useful(node.children[i]) /\ UsefulBelow(node.children[i])

\* New returned a trie
Built == last.op = "new" /\ last.panic = <<>>

\* C28 as stated: in the trie that New returns, for every route list, the
\* empty one included, every node has a child or a handler.
C28_NoEmptyNodeRetained ==
    Built => (Useful(tries[1]) /\ UsefulBelow(tries[1]))

\* C28 amended: in the trie that New returns every node below the root has
\* a child or a handler, and so has the root when the list holds a route;
\* the root of the trie built from the empty list has neither.
C28_NoEmptyNodeBelowRoot ==
    Built =>
        /\ UsefulBelow(tries[1])
        /\ Useful(tries[1]) <=> routes # <<>>

\* New returned a trie of three routes with nodes on three levels
C28_Witness ==
    /\ Built
    /\ Len(routes) = 3
    /\ \E i \in DOMAIN tries[1].children :
          \E j \in DOMAIN tries[1].children[i].children :
              tries[1].children[i].children[j].children # <<>>

\* a node below the given one has one child and no handler
RECURSIVE HasChainBelow(_)
HasChainBelow(node) ==
    \E i \in DOMAIN node.children :
        \/ (Len(node.children[i].children) = 1
            /\ node.children[i].terminal = NilTerminal)
        \/ HasChainBelow(node.children[i])

\* C29: the compression pass merges every chain of nodes with one child and
\* no handler: in the trie that New returns no node below the root has
\* exactly one child and an empty terminal set.
C29_ChainsCollapsed ==
    Built => ~HasChainBelow(tries[1])

(***************************************************************************)
(* Middleware and the not-found handler                                    *)
(***************************************************************************)
\* C30: when no route matches a request, the middleware accumulated by the
\* handle that serves it runs around the not-found handler, in the order in
\* which it runs around a route handler, so that a request that is not
\* found passes through the middleware too.
C30_MiddlewareAroundNotFound ==
    (last.op = "serve" /\ last.h # 0 /\ ~last.found) =>
        last.trace = ExpectedTrace(handles[last.h].middleware,
                                   ConfiguredNotFound.base)

(***************************************************************************)
(* Lookup as a reader of the trie                                          *)
(***************************************************************************)
\* C31: Lookup leaves the trie unchanged.  Whatever calls are in flight and
\* whatever they look up (hits, misses, paths through nodes without a
\* handler), the trie is the one that New returned, node for node, and
\* every call that has returned has the result that a call running alone on
\* that trie returns.
C31_LookupLeavesTrieUnchanged ==
    /\ tries[1] = radixNew(routes).root
    /\ \A t \in Walkers :
          walk[t].pc = "done" =>
              LET res == lookup(radixNew(routes).root, walk[t].method, walk[t].arg)
              IN walk[t].ok = res.ok /\ walk[t].handler = res.handler

\* one call has ended not found at a node that has children and no handler
\* while another call is inside the trie
C31_Witness ==
    /\ walk[1].pc = "done"
    /\ ~walk[1].ok
    /\ walk[1].at # <<>>
    /\ NodeOf(tries[1], walk[1].at).terminal = NilTerminal
    /\ NodeOf(tries[1], walk[1].at).children # <<>>
    /\ walk[2].pc = "run"
    /\ walk[2].at # <<>>

(***************************************************************************)
(* Termination of Lookup                                                   *)
(***************************************************************************)
\* the number of levels below the node
RECURSIVE Depth(_)
Depth(node) ==
    IF node.children = <<>> THEN 0
    ELSE LET below == {Depth(node.children[i]) : i \in DOMAIN node.children}
         IN 1 + CHOOSE d \in below : \A e \in below : e <= d

\* C39: Lookup terminates.  Every invocation of lookup but the last one of
\* a call goes one level down, so a call is as many levels below the root
\* as it has made recursive calls, never more than the trie is deep, and
\* every call that has started returns.
C39_LookupTerminates ==
    /\ [](/\ walk[1].pc = "run" => Len(walk[1].at) = walk[1].calls
          /\ walk[1].pc = "done" => Len(walk[1].at) = walk[1].calls - 1
          /\ Len(walk[1].at) <= Depth(tries[1]))
    /\ (walk[1].pc = "run") ~> (walk[1].pc = "done")

\* a call has returned from the deepest node of a trie with three levels
C39_Witness ==
    /\ walk[1].pc = "done"
    /\ walk[1].ok
    /\ walk[1].calls = 4
    /\ Depth(tries[1]) = 3

(***************************************************************************)
(* State written while requests are served                                 *)
(***************************************************************************)
\* C32: once requests may be in flight (the serving flag is set), the trie
\* and the flag are the only state that is written: no call writes the
\* prefix or the middleware sequence of a handle that exists, so the
\* sequence that ServeHTTP reads is never changed by a Use call.
C32_HandleFieldsNeverWritten ==
    [][Started =>
          \A i \in DOMAIN handles :
              /\ handles'[i].prefix = handles[i].prefix
              /\ handles'[i].middleware = handles[i].middleware]_vars

(***************************************************************************)
(* Groups                                                                  *)
(***************************************************************************)
\* C33: Group panics, with a message that names the reason, exactly when the
\* prefix is empty, does not start with '/', or ends in '*' once its
\* trailing slashes are trimmed; for every other prefix, "/" included, it
\* returns a SubRouter whose prefix is the input without its trailing
\* slashes.
C33_GroupPanicsExactlyOnInvalidPrefix ==
    last.op = "group" =>
        LET p == last.path
            t == WithoutTrailing(p, "/")
            invalid == \/ p = <<>>
                       \/ p[1] # "/"
                       \/ (t # <<>> /\ t[Len(t)] = "*")
        IN /\ (last.panic # <<>>) <=> invalid
           /\ invalid =>
                  last.panic[1] \in {"prefix cannot be an empty string", "prefix "}
           /\ ~invalid => (Len(handles) = 2 /\ handles[2].prefix = t)

\* C34: a route registered on a SubRouter made for prefix P under path Q is
\* inserted at P without its trailing slashes, a '/', and Q without its
\* leading slashes, and the parent router finds it at that path; once a
\* request has been served the registration panics as it does on the
\* router, and it panics in no other case.
C34_SubRouterRegistersUnderPrefix ==
    last.op = "subadd" =>
        LET full == WithoutTrailing(origin[2].arg, "/") \o <<"/">>
                        \o WithoutLeading(last.path, "/")
            res == Lookup(Root, last.method, full)
        IN /\ (last.panic # <<>>) <=> StartedOf(1)
           /\ last.panic = <<>> =>
                  /\ res.ok
                  /\ res.handler.base = last.handler.base
                  /\ \E x \in registered :
                         x.h = 2 /\ x.method = last.method /\ x.path = full
           /\ last.panic # <<>> =>
                  (res.ok => RoutesOf(last.method, full) # {})

\* api := r.Group("/a/") and api.GET("/a", h) were called, and GET /a/a is
\* found
C34_Witness ==
    /\ last.op = "subadd"
    /\ last.panic = <<>>
    /\ origin[2].arg = <<"/", "a", "/">>
    /\ last.path = <<"/", "a">>
    /\ Lookup(Root, "GET", <<"/", "a", "/", "a">>).ok

(***************************************************************************)
(* Errors of handlers                                                      *)
(***************************************************************************)
\* C35: whenever the handler returns an error, the status that the JSON
\* adapter writes is in the range 400-599, whatever status the handler
\* returned with the error.
C35_ErrorStatusInErrorRange ==
    (last.op = "json" /\ last.failed) =>
        (400 <= last.wrote.status /\ last.wrote.status <= 599)

(***************************************************************************)
(* Exactness of Lookup in the list-built trie                              *)
(***************************************************************************)
\* C36 as stated: Lookup reports found only if a route with the method and
\* exactly the path of the request is listed; a request that differs from
\* every listed path of the method by an extra, doubled or missing slash is
\* not found.
C36_FoundOnlyExactPath ==
    (last.op = "lookup" /\ last.found) =>
        \E k \in DOMAIN routes :
            routes[k].Method = last.method /\ routes[k].Path = last.path

\* C36 amended: Lookup reports found only if a route with the method is
\* listed whose path is the path of the request, or differs from it only by
\* the leading '/' that the request lacks or by one '/' that the request
\* has at its end; the handler is the handler of such a route.  A request
\* with a doubled slash inside is found only if a route has it.
C36_FoundOnlyUpToOuterSlash ==
    (last.op = "lookup" /\ last.found) =>
        \E k \in DOMAIN routes :
            /\ routes[k].Method = last.method
            /\ routes[k].Handler = last.handler
            /\ LET path == routes[k].Path
               IN last.path \in {path, path \o <<"/">>,
                                 Tail(path), Tail(path) \o <<"/">>}

\* /a/b/ was looked up and found through the route /a/b, and no route of
\* the list ends in a '/'
C36_Witness ==
    /\ last.op = "lookup"
    /\ last.found
    /\ last.path = <<"/", "a", "/", "b", "/">>
    /\ RoutesAt("GET", <<"/", "a", "/", "b">>) # {}
    /\ \A k \in DOMAIN routes : routes[k].Path[Len(routes[k].Path)] # "/"

(***************************************************************************)
(* The children of a node                                                  *)
(***************************************************************************)
\* under the node and under every node below it, no two children have
\* prefixes with the same first segment
RECURSIVE DistinctFirstSegments(_)
DistinctFirstSegments(node) ==
    /\ \A i, j \in DOMAIN node.children :
           i # j => FirstSegment(node.children[i].prefix)
                        # FirstSegment(node.children[j].prefix)
    /\ \A i \in DOMAIN node.children : DistinctFirstSegments(node.children[i])

\* the trie with the children of every node in the opposite order
RECURSIVE Reversed(_)
Reversed(node) ==
    [node EXCEPT !.children =
        [i \in DOMAIN @ |-> Reversed(@[Len(@) + 1 - i])]]

\* C37: under every node of the trie, before the compression pass and after
\* it, the prefixes of the children have pairwise distinct first segments;
\* a Lookup therefore has the same result on the trie with the children of
\* every node in the opposite order.
C37_ChildrenDistinct ==
    (last.op \in {"new", "lookup"} /\ last.panic = <<>>) =>
        /\ DistinctFirstSegments(radixNew_uncompressed(routes).root)
        /\ DistinctFirstSegments(tries[1])
        /\ last.op = "lookup" =>
               LET res == lookup(Reversed(tries[1]), last.method, last.path)
               IN res.ok = last.found /\ res.handler = last.handler

\* a route was found through the second child of a node whose first child
\* is a merged node
C37_Witness ==
    /\ last.op = "lookup"
    /\ last.found
    /\ last.path = <<"/", "a", "/", "b">>
    /\ Len(tries[1].children) = 1
    /\ Len(tries[1].children[1].children) = 2
    /\ tries[1].children[1].children[2].prefix = <<"b">>
    /\ Len(tries[1].children[1].children[1].prefix) > 1

(***************************************************************************)
(* The order of the routes of the list                                     *)
(***************************************************************************)
\* C38: for a list of routes with pairwise distinct (method, path), the trie
\* built from any permutation of the list answers every Lookup as the trie
\* built from the list does: found or not found, and the same handler.
C38_OrderIndependent ==
    (/\ Built
     /\ \A i, j \in DOMAIN routes :
            (routes[i].Method = routes[j].Method
             /\ routes[i].Path = routes[j].Path) => i = j) =>
        \A p \in [DOMAIN routes -> DOMAIN routes] :
            (\A i, j \in DOMAIN routes : p[i] = p[j] => i = j) =>
                LET other == radixNew([k \in DOMAIN routes |-> routes[p[k]]]).root
                IN \A q \in LookupArgs :
                       lookup(other, q[1], q[2]) = lookup(tries[1], q[1], q[2])

\* New returned the trie of three distinct routes, and the trie of the list
\* in the opposite order has its nodes in another order
C38_Witness ==
    /\ Built
    /\ Len(routes) = 3
    /\ \A i, j \in DOMAIN routes : routes[i].Path = routes[j].Path => i = j
    /\ radixNew(<<routes[3], routes[2], routes[1]>>).root # tries[1]
    /\ \E q \in LookupArgs : lookup(tries[1], q[1], q[2]).ok

====
